---- MODULE Spec2Model ----
(***************************************************************************)
(* GTM tracker: the in-memory record store (app/storage.py), the Slack     *)
(* command handlers on top of it (app/slack_handlers.py), the SQL-backed   *)
(* CRUD layer (app/crud.py, app/models.py, app/schemas.py), the FastAPI    *)
(* endpoints and Slack webhooks (api/index.py) and the request signature   *)
(* check (app/slack_utils.py).                                             *)
(*                                                                         *)
(* Conventions.  A Python str is a sequence of one-character strings.      *)
(* An Optional value is None == <<>> or Some(v) == <<v>>.  A keyword or    *)
(* JSON field map is a function whose DOMAIN is the set of keys present.   *)
(***************************************************************************)
EXTENDS Integers, Sequences, FiniteSets, TLC

\* ------------------------------------------------------------------ bounds
\* Largest number of ids a store hands out in one behaviour.
MaxId == 2
\* Largest reading of the clock (timestamps are clock readings).
MaxClock == 2

\* ------------------------------------------------------------ Optional, str
None == <<>>
Some(v) == <<v>>
IsSome(o) == Len(o) = 1
Get(o) == o[1]

\* Python truthiness of an Optional[str] / Optional[int].
TruthyStr(o) == IsSome(o) /\ Get(o) # <<>>
TruthyInt(o) == IsSome(o) /\ Get(o) # 0

WS == {" "}
RECURSIVE LStrip(_)
LStrip(s) == IF s # <<>> /\ Head(s) \in WS THEN LStrip(Tail(s)) ELSE s
RECURSIVE RStrip(_)
RStrip(s) ==
    IF s # <<>> /\ s[Len(s)] \in WS THEN RStrip(SubSeq(s, 1, Len(s) - 1)) ELSE s
\* str.strip()
Strip(s) == RStrip(LStrip(s))

\* str.split(sep): always at least one part; "" splits to [""].
RECURSIVE Split(_, _)
Split(s, sep) ==
    IF s = <<>> THEN << <<>> >>
    ELSE LET rest == Split(Tail(s), sep) IN
         IF Head(s) = sep THEN << <<>> >> \o rest
         ELSE << <<Head(s)>> \o Head(rest) >> \o Tail(rest)

Digits == {"0", "1", "2", "3", "4", "5", "6", "7", "8", "9"}
DigitVal(c) ==
    CASE c = "0" -> 0 [] c = "1" -> 1 [] c = "2" -> 2 [] c = "3" -> 3
      [] c = "4" -> 4 [] c = "5" -> 5 [] c = "6" -> 6 [] c = "7" -> 7
      [] c = "8" -> 8 [] c = "9" -> 9
RECURSIVE DigitsVal(_)
DigitsVal(s) ==
    IF s = <<>> THEN 0 ELSE 10 * DigitsVal(SubSeq(s, 1, Len(s) - 1)) + DigitVal(s[Len(s)])
AllDigits(s) == s # <<>> /\ \A i \in 1..Len(s) : s[i] \in Digits
\* int(s): surrounding whitespace and one sign are accepted; anything else is a
\* ValueError, modelled as None.
ParseInt(s) ==
    LET t == Strip(s) IN
    IF t # <<>> /\ Head(t) \in {"-", "+"}
    THEN IF AllDigits(Tail(t))
         THEN Some((IF Head(t) = "-" THEN -1 ELSE 1) * DigitsVal(Tail(t)))
         ELSE None
    ELSE IF AllDigits(t) THEN Some(DigitsVal(t)) ELSE None

DigitChar(d) ==
    CASE d = 0 -> "0" [] d = 1 -> "1" [] d = 2 -> "2" [] d = 3 -> "3"
      [] d = 4 -> "4" [] d = 5 -> "5" [] d = 6 -> "6" [] d = 7 -> "7"
      [] d = 8 -> "8" [] d = 9 -> "9"
RECURSIVE NatToText(_)
NatToText(n) == IF n < 10 THEN <<DigitChar(n)>> ELSE NatToText(n \div 10) \o <<DigitChar(n % 10)>>
\* str(n)
IntToText(n) == IF n < 0 THEN <<"-">> \o NatToText(-n) ELSE NatToText(n)

Abs(n) == IF n < 0 THEN -n ELSE n

\* s.startswith(prefix)
StartsWith(s, prefix) ==
    Len(s) >= Len(prefix) /\ SubSeq(s, 1, Len(prefix)) = prefix

\* ------------------------------------------------------------------- state
VARIABLES
    activities,     \* InMemoryStorage.activities: id -> GTMActivity
    next_id,        \* InMemoryStorage.next_id
    db,             \* table gtm_activities: id -> row
    db_seq,         \* the next value of the table's id sequence
    slack_client,   \* SLACK_BOT_TOKEN is set: a WebClient exists
    signing_secret, \* SLACK_SIGNING_SECRET, "" when not set
    clock,          \* the clock read by utcnow() / now(); it never goes back
    issued,         \* history: the ids InMemoryStorage.create returned so far
    last,           \* the last call: its operation, arguments and outcome
    sessions        \* the database session of each request in flight

vars == <<activities, next_id, db, db_seq, slack_client, signing_secret,
          clock, issued, last, sessions>>
\* The in-memory store, the SQL table, and what a call made on its own leaves
\* alone: the configuration and the sessions of other requests.
mem == <<activities, next_id>>
sql == <<db, db_seq>>
env == <<slack_client, signing_secret, sessions>>

\* The user-settable columns of an Activity, and the managed ones.
DataFields ==
    {"hypothesis", "audience", "channels", "description", "list_size",
     "meetings_booked", "start_date", "end_date", "est_weekly_hrs"}
MetaFields == {"id", "created_at", "updated_at"}
AllFields == DataFields \cup MetaFields

\* GTMActivity(id=.., hypothesis=.., audience=.., channels=.., **kwargs): the
\* fields not passed default to None, both timestamps to utcnow().
NewActivity(id, fields, now) ==
    [f \in AllFields |->
        IF f = "id" THEN id
        ELSE IF f \in {"created_at", "updated_at"} THEN now
        ELSE IF f \in DOMAIN fields THEN fields[f]
        ELSE None]

\* ------------------------------------------------------- InMemoryStorage
\* A store that numbers a new record by the count of records it holds.
StorageNextIdByCount(acts, n) == Cardinality(DOMAIN acts) + 1

\* create: the record is stored under next_id and next_id moves on
\* (self.next_id += 1), whatever the store holds (acts).
StorageNextIdAfterCreate(acts, n) == n + 1

StorageCreated(acts, n, fields, now) ==
    [i \in DOMAIN acts \cup {n} |->
        IF i = n THEN NewActivity(n, fields, now) ELSE acts[i]]

\* get: dict.get, None when the key is absent.
StorageGetResult(acts, id) == IF id \in DOMAIN acts THEN Some(acts[id]) ELSE None

\* update: setattr for every keyword that names an attribute (hasattr holds for
\* id and the timestamps too) and whose value is not None, then
\* updated_at = utcnow().  The keyword maps drawn here never pass None for id,
\* created_at or updated_at.
\* An update that applies the keywords and leaves updated_at alone.
StorageUpdatedActivityStale(a, kw, now) ==
    [f \in AllFields |->
        IF f \in DOMAIN kw /\ (f \in MetaFields \/ kw[f] # None) THEN kw[f]
        ELSE a[f]]

StorageUpdatedActivity(a, kw, now) ==
    [f \in AllFields |->
        IF f = "updated_at" THEN now
        ELSE IF f \in DOMAIN kw /\ (f \in MetaFields \/ kw[f] # None) THEN kw[f]
        ELSE a[f]]

\* An update that inserts the record when the id is absent.
StorageUpserted(acts, id, kw, now) ==
    IF id \in DOMAIN acts
    THEN [acts EXCEPT ![id] = StorageUpdatedActivity(acts[id], kw, now)]
    ELSE [i \in DOMAIN acts \cup {id} |->
            IF i = id THEN NewActivity(id, kw, now) ELSE acts[i]]

StorageUpdated(acts, id, kw, now) ==
    IF id \in DOMAIN acts
    THEN [acts EXCEPT ![id] = StorageUpdatedActivity(acts[id], kw, now)]
    ELSE acts

\* delete: del activities[id] when present.
StorageDeleted(acts, id) ==
    IF id \in DOMAIN acts THEN [i \in DOMAIN acts \ {id} |-> acts[i]] ELSE acts

\* ------------------------------------------------------------ call inputs
\* Field maps passed to InMemoryStorage.create by a direct caller.
CreateFields ==
    { [hypothesis |-> Some(<<"b">>), audience |-> Some(<<"x">>),
       channels |-> None, list_size |-> Some(5)],
      [hypothesis |-> Some(<<>>), audience |-> Some(<<"x">>)] }

\* Keyword maps passed to InMemoryStorage.update.
UpdateKwargs ==
    { [f \in {} |-> None],
      [audience |-> None, list_size |-> Some(0)],
      [id |-> MaxId + 1] }

\* Ids a caller may ask for: the ones a store can hold, and one it never holds.
AskIds == 1..(MaxId + 1)

\* Argument texts of /gtm-add.
AddTexts ==
    { <<>>,
      <<"a">>,
      <<"a", " ", "|", " ", "|", " ", "e">>,
      <<"|", " ", "x", " ", "|", " ", "e">>,
      <<" ", " ", "|", " ", "x">>,
      <<"a", "|", "x", "|", "e", "|", "z">> }

\* ---------------------------------------------------------- the last call
\* op: the operation; arg: its argument(s); ret: what it returned;
\* created: the ids given to the records created during the call, in order;
\* notify: what became of the outbound notification.
Call(op, arg, ret, created, notify) ==
    [op |-> op, arg |-> arg, ret |-> ret, created |-> created, notify |-> notify]

\* No call is in progress: the caller has taken the previous result.
NoCall == Call("none", <<>>, <<>>, <<>>, "none")
Idle == last = NoCall

\* ------------------------------------------------------------------ Init
\* The signing secret of a configured deployment.
Secret == "k"

\* get_db: one session per request (SessionLocal()).  A session that holds
\* nothing: no request is using it.
Requests == {1, 2}
NoSession ==
    [op |-> "none", id |-> 0, body |-> <<>>, pc |-> "idle", row |-> <<>>, ret |-> <<>>]

Init ==
    /\ activities = <<>>
    /\ next_id = 1
    /\ db = <<>>
    /\ db_seq = 1
    /\ slack_client \in BOOLEAN
    /\ signing_secret = Secret
    /\ clock = 0
    /\ issued = {}
    /\ last = NoCall
    /\ sessions = [r \in Requests |-> NoSession]

\* Time passes between calls.
Tick ==
    /\ Idle
    /\ clock < MaxClock
    /\ clock' = clock + 1
    /\ UNCHANGED <<mem, sql, env, issued, last>>

\* The caller takes the result; calls are made one at a time.
Return ==
    /\ ~Idle
    /\ last' = NoCall
    /\ UNCHANGED <<mem, sql, env, clock, issued>>

\* ------------------------------------------- InMemoryStorage, called directly
StorageCreate(fields) ==
    /\ Idle
    /\ next_id <= MaxId
    /\ activities' = StorageCreated(activities, next_id, fields, clock)
    /\ next_id' = StorageNextIdAfterCreate(activities', next_id)
    /\ issued' = issued \cup {next_id}
    /\ last' = Call("create", fields, NewActivity(next_id, fields, clock),
                    <<next_id>>, "none")
    /\ UNCHANGED <<sql, env, clock>>

StorageGet(id) ==
    /\ Idle
    /\ last' = Call("get", id, StorageGetResult(activities, id), <<>>, "none")
    /\ UNCHANGED <<mem, sql, env, clock, issued>>

StorageUpdate(id, kw) ==
    /\ Idle
    /\ activities' = StorageUpdated(activities, id, kw, clock)
    /\ last' = Call("update", [id |-> id, kw |-> kw],
                    StorageGetResult(StorageUpdated(activities, id, kw, clock), id),
                    <<>>, "none")
    /\ UNCHANGED <<next_id, sql, env, clock, issued>>

StorageDelete(id) ==
    /\ Idle
    /\ activities' = StorageDeleted(activities, id)
    /\ last' = Call("delete", id, id \in DOMAIN activities, <<>>, "none")
    /\ UNCHANGED <<next_id, sql, env, clock, issued>>

\* ------------------------------------------------------------ handle_gtm_add
\* A response of a command handler: its visibility, the message it carries
\* (named after the literal in the code) and the activity id the message names.
Response(response_type, msg, id) ==
    [response_type |-> response_type, msg |-> msg, id |-> id]

\* parts = [p.strip() for p in text.split("|")]
AddParts(text) ==
    LET raw == Split(text, "|") IN [i \in 1..Len(raw) |-> Strip(raw[i])]

\* hypothesis = parts[0]; audience / channels = parts[1] / parts[2] when the
\* list is that long, else None.
AddFields(text) ==
    LET parts == AddParts(text) IN
    [hypothesis |-> Some(parts[1]),
     audience   |-> IF Len(parts) > 1 THEN Some(parts[2]) ELSE None,
     channels   |-> IF Len(parts) > 2 THEN Some(parts[3]) ELSE None]

\* The early returns of handle_gtm_add: `if not text`, then `if len(parts) < 1`.
AddRejection(text) ==
    IF text = <<>> THEN "add_usage"
    ELSE IF Len(AddParts(text)) < 1 THEN "add_invalid_format"
    ELSE "none"

\* chat_postMessage: attempted only with a client; a failure is caught.
NotifyOutcomes == IF slack_client THEN {"sent", "failed"} ELSE {"skipped"}

\* A handler that lets the error of chat_postMessage out.
AddCreatedResponseUncaught(id, n) ==
    IF n = "failed" THEN Response("ephemeral", "add_notification_error", id)
    ELSE Response("ephemeral", "add_created", id)

\* What handle_gtm_add returns after a creation, n being what became of the
\* notification: the except clause swallows its error.
AddCreatedResponse(id, n) == Response("ephemeral", "add_created", id)

HandleGtmAdd(text) ==
    /\ Idle
    /\ IF AddRejection(text) # "none"
       THEN /\ last' = Call("add", text, Response("ephemeral", AddRejection(text), 0),
                            <<>>, "none")
            /\ UNCHANGED <<mem, sql, env, clock, issued>>
       ELSE /\ next_id <= MaxId
            /\ activities' = StorageCreated(activities, next_id, AddFields(text), clock)
            /\ next_id' = StorageNextIdAfterCreate(activities', next_id)
            /\ issued' = issued \cup {next_id}
            /\ \E n \in NotifyOutcomes :
                   last' = Call("add", text, AddCreatedResponse(next_id, n),
                                <<next_id>>, n)
            /\ UNCHANGED <<sql, env, clock>>

\* ------------------------------------------- handle_gtm_list, handle_gtm_view
UpperLetters ==
    <<"A", "B", "C", "D", "E", "F", "G", "H", "I", "J", "K", "L", "M",
      "N", "O", "P", "Q", "R", "S", "T", "U", "V", "W", "X", "Y", "Z">>
LowerLetters ==
    <<"a", "b", "c", "d", "e", "f", "g", "h", "i", "j", "k", "l", "m",
      "n", "o", "p", "q", "r", "s", "t", "u", "v", "w", "x", "y", "z">>

\* str.lower()
LowerChar(c) ==
    IF \E i \in 1..26 : UpperLetters[i] = c
    THEN LowerLetters[CHOOSE i \in 1..26 : UpperLetters[i] = c]
    ELSE c
Lower(s) == [i \in 1..Len(s) |-> LowerChar(s[i])]

\* s.endswith(suffix)
EndsWith(s, suffix) ==
    Len(s) >= Len(suffix) /\ SubSeq(s, Len(s) - Len(suffix) + 1, Len(s)) = suffix

\* sub in s
Contains(s, sub) ==
    \E i \in 0..(Len(s) - Len(sub)) : SubSeq(s, i + 1, i + Len(sub)) = sub

PublicWord == <<"p", "u", "b", "l", "i", "c">>

\* InMemoryStorage.list_all: whether the activity passes the filter.
ListAllMatches(a, filter_text) ==
    \/ ~TruthyStr(filter_text)
    \/ \E f \in {"hypothesis", "audience", "channels"} :
          TruthyStr(a[f]) /\ Contains(Lower(Get(a[f])), Lower(Get(filter_text)))

\* sort(key=lambda x: x.id, reverse=True) of the records under the keys K: the
\* largest id first, records of equal id in insertion (key) order.
RECURSIVE SortedByIdDesc(_, _)
SortedByIdDesc(acts, K) ==
    IF K = {} THEN <<>>
    ELSE LET top == {k \in K : \A j \in K : acts[j].id <= acts[k].id}
             first == CHOOSE k \in top : \A j \in top : k <= j
         IN <<first>> \o SortedByIdDesc(acts, K \ {first})

\* The limit handle_gtm_list passes to list_all.
ListLimit == 10

\* InMemoryStorage.list_all(limit, filter_text): the keys of the activities it
\* returns, in the order it returns them.
ListAll(acts, limit, filter_text) ==
    LET sorted == SortedByIdDesc(acts, {k \in DOMAIN acts : ListAllMatches(acts[k], filter_text)})
    IN SubSeq(sorted, 1, IF Len(sorted) < limit THEN Len(sorted) ELSE limit)

\* The public keyword of handle_gtm_list: the visibility and the filter that
\* remain once it is taken off.  filter_text is an Optional[str].
ListPublic(filter_text) ==
    TruthyStr(filter_text)
    /\ (Lower(Get(filter_text)) = PublicWord
        \/ StartsWith(Lower(Get(filter_text)), PublicWord \o <<" ">>))

ListFilter(filter_text) ==
    IF TruthyStr(filter_text) /\ Lower(Get(filter_text)) = PublicWord THEN None
    ELSE IF ListPublic(filter_text)
    THEN LET rest == Strip(SubSeq(Get(filter_text), 8, Len(Get(filter_text))))
         IN IF rest = <<>> THEN None ELSE Some(rest)
    ELSE filter_text

\* The response of handle_gtm_list: its visibility, the message, the filter
\* the message shows and the ids of the listed activities, in order.
ListResponse(response_type, msg, filter_text, ids) ==
    [response_type |-> response_type, msg |-> msg, filter |-> filter_text, ids |-> ids]

HandleGtmListResponse(acts, filter_text) ==
    LET filter == ListFilter(filter_text)
        found == ListAll(acts, ListLimit, filter)
    IN IF found = <<>>
       THEN ListResponse("ephemeral",
                         IF TruthyStr(filter) THEN "no_activities_matching"
                         ELSE "no_activities", filter, <<>>)
       ELSE ListResponse(IF ListPublic(filter_text) THEN "in_channel" ELSE "ephemeral",
                         "list", filter, [i \in 1..Len(found) |-> acts[found[i]].id])

HandleGtmList(filter_text) ==
    /\ Idle
    /\ last' = Call("list", filter_text, HandleGtmListResponse(activities, filter_text),
                    <<>>, "none")
    /\ UNCHANGED <<mem, sql, env, clock, issued>>

\* The public keyword of handle_gtm_view and the id text that remains.
ViewPublic(text) == text # <<>> /\ EndsWith(Lower(text), <<" ">> \o PublicWord)

ViewIdText(text) ==
    IF ViewPublic(text) THEN Strip(SubSeq(text, 1, Len(text) - 7)) ELSE text

\* The response of handle_gtm_view: share is whether it carries the
\* "Share with Channel" button.
ViewResponse(response_type, msg, id, share) ==
    [response_type |-> response_type, msg |-> msg, id |-> id, share |-> share]

HandleGtmViewResponse(acts, text) ==
    LET id_text == ViewIdText(text) IN
    IF id_text = <<>> THEN ViewResponse("ephemeral", "view_usage", 0, FALSE)
    ELSE IF ParseInt(id_text) = None THEN ViewResponse("ephemeral", "invalid_id", 0, FALSE)
    ELSE IF StorageGetResult(acts, Get(ParseInt(id_text))) = None
    THEN ViewResponse("ephemeral", "not_found", Get(ParseInt(id_text)), FALSE)
    ELSE ViewResponse(IF ViewPublic(text) THEN "in_channel" ELSE "ephemeral", "detail",
                      acts[Get(ParseInt(id_text))].id, ~ViewPublic(text))

HandleGtmView(text) ==
    /\ Idle
    /\ last' = Call("view", text, HandleGtmViewResponse(activities, text), <<>>, "none")
    /\ UNCHANGED <<mem, sql, env, clock, issued>>

\* Argument texts of the add, list and view handlers.
CmdAddTexts ==
    { <<"E", "m", " ", "|", " ", "x">>,
      <<"z", " ", "|", " ", "|", " ", "e", "M">> }

CmdListTexts ==
    { None,
      Some(<<>>),
      Some(<<"e", "m">>),
      Some(<<"q">>),
      Some(PublicWord),
      Some(<<"P", "u", "b", "l", "i", "c", " ", " ", "e", "m", " ">>),
      Some(PublicWord \o <<" ", "q">>),
      Some(PublicWord \o <<" ">>),
      Some(PublicWord \o <<"e">>) }

CmdViewTexts ==
    { <<>> }
    \cup {IntToText(i) : i \in AskIds}
    \cup {IntToText(i) \o <<" ", "P", "u", "b", "l", "i", "c">> : i \in AskIds}
    \cup {PublicWord \o <<" ">> \o IntToText(i) : i \in AskIds}
    \cup { <<" ">> \o PublicWord, PublicWord, <<"x">>, <<"-", "1">> }

NextCmd ==
    \/ Return
    \/ \E text \in CmdAddTexts : HandleGtmAdd(text)
    \/ \E id \in AskIds : StorageDelete(id)
    \/ \E filter_text \in CmdListTexts : HandleGtmList(filter_text)
    \/ \E text \in CmdViewTexts : HandleGtmView(text)

\* The add, list and view handlers over the in-memory store.
SpecCmd == Init /\ [][NextCmd]_vars

\* ------------------------------------------- the blocks of handle_gtm_view
\* The detail view as the fields it shows: a function from the label of a
\* field to the text rendered after it; a label that is not in the domain is
\* a block the view leaves out.
NA == <<"N", "/", "A">>

\* f"{value or 'N/A'}" for a str, an int and a float value.
StrOrNA(v) == IF TruthyStr(v) THEN Get(v) ELSE NA
IntOrNA(v) == IF TruthyInt(v) THEN IntToText(Get(v)) ELSE NA
\* A float is held as the whole number it equals: str(2.0) is '2.0'.
FloatOrNA(v) == IF TruthyInt(v) THEN IntToText(Get(v)) \o <<".", "0">> ELSE NA

DescriptionLimit == 500
DescriptionKept == 497

\* A cut that keeps DescriptionLimit characters before the marker.
TruncatedLate(desc) ==
    IF Len(desc) > DescriptionLimit
    THEN SubSeq(desc, 1, DescriptionLimit) \o <<".", ".", ".">>
    ELSE desc

\* desc[:497] + "..." when len(desc) > 500
Truncated(desc) ==
    IF Len(desc) > DescriptionLimit
    THEN SubSeq(desc, 1, DescriptionKept) \o <<".", ".", ".">>
    ELSE desc

DetailLabels ==
    {"Hypothesis", "Audience", "Channels", "List Size", "Meetings Booked",
     "Est. Weekly Hours", "Start Date", "End Date", "Description"}

DetailShown(a) ==
    {"Hypothesis", "Audience", "Channels", "List Size", "Meetings Booked",
     "Est. Weekly Hours"}
    \cup (IF TruthyStr(a.start_date) \/ TruthyStr(a.end_date)
          THEN {"Start Date", "End Date"} ELSE {})
    \cup (IF TruthyStr(a.description) THEN {"Description"} ELSE {})

DetailBlocks(a) ==
    [l \in DetailShown(a) |->
        CASE l = "Hypothesis" -> IF IsSome(a.hypothesis) THEN Get(a.hypothesis)
                                 ELSE <<"N", "o", "n", "e">>
          [] l = "Audience" -> StrOrNA(a.audience)
          [] l = "Channels" -> StrOrNA(a.channels)
          [] l = "List Size" -> IntOrNA(a.list_size)
          [] l = "Meetings Booked" -> IntOrNA(a.meetings_booked)
          [] l = "Est. Weekly Hours" -> FloatOrNA(a.est_weekly_hrs)
          [] l = "Start Date" -> StrOrNA(a.start_date)
          [] l = "End Date" -> StrOrNA(a.end_date)
          [] l = "Description" -> Truncated(Get(a.description))]

\* handle_gtm_view with the blocks of its response: the response of
\* HandleGtmViewResponse, and the fields shown when it is the detail view.
HandleGtmViewBlocks(acts, text) ==
    LET r == HandleGtmViewResponse(acts, text) IN
    [response_type |-> r.response_type, msg |-> r.msg, id |-> r.id,
     blocks |-> IF r.msg = "detail" THEN DetailBlocks(acts[r.id]) ELSE <<>>]

HandleGtmViewDetail(text) ==
    /\ Idle
    /\ last' = Call("view_detail", text, HandleGtmViewBlocks(activities, text),
                    <<>>, "none")
    /\ UNCHANGED <<mem, sql, env, clock, issued>>

\* A text of n characters, no two neighbours alike.
LongText(n) == [i \in 1..n |-> DigitChar(i % 10)]

\* Keyword arguments of InMemoryStorage.create: records with and without
\* each optional field, zeros, and descriptions around the limit.
ViewCreateFields ==
    { [hypothesis |-> Some(<<"h">>)],
      [hypothesis |-> Some(<<"h">>), audience |-> Some(<<"x">>), channels |-> Some(<<"e">>),
       list_size |-> Some(0), meetings_booked |-> Some(3), est_weekly_hrs |-> Some(0),
       start_date |-> Some(<<"2">>), description |-> Some(LongText(600))],
      [hypothesis |-> Some(<<"h">>), list_size |-> Some(5), est_weekly_hrs |-> Some(2),
       end_date |-> Some(<<"3">>), description |-> Some(LongText(DescriptionLimit))],
      [hypothesis |-> Some(<<"h">>), audience |-> Some(<<>>),
       description |-> Some(LongText(DescriptionLimit + 1))],
      [hypothesis |-> Some(<<"h">>), meetings_booked |-> Some(0),
       description |-> Some(<<"d">>)] }

ViewDetailTexts ==
    {IntToText(i) : i \in AskIds}
    \cup {IntToText(i) \o <<" ">> \o PublicWord : i \in AskIds}
    \cup { <<>>, <<"x">> }

NextView ==
    \/ Return
    \/ \E fields \in ViewCreateFields : StorageCreate(fields)
    \/ \E id \in AskIds : StorageDelete(id)
    \/ \E text \in ViewDetailTexts : HandleGtmViewDetail(text)

\* The detail view over records created with every kind of field value.
SpecView == Init /\ [][NextView]_vars

\* ------------------------------------------------------------------ Spec
Next ==
    \/ Return
    \/ \E fields \in CreateFields : StorageCreate(fields)
    \/ \E id \in AskIds : StorageGet(id)
    \/ \E id \in AskIds, kw \in UpdateKwargs : StorageUpdate(id, kw)
    \/ \E id \in AskIds : StorageDelete(id)
    \/ \E text \in AddTexts : HandleGtmAdd(text)

\* The store and the command handlers, called one after the other within one
\* reading of the clock.
Spec == Init /\ [][Next]_vars

\* ------------------------------------------------------------- SpecTime
\* The store's create, update and delete with the clock advancing between calls.
TimeCreateFields == { [hypothesis |-> Some(<<"a">>), list_size |-> Some(5)] }
TimeUpdateKwargs == { [f \in {} |-> None], [list_size |-> Some(0)] }

NextTime ==
    \/ Tick
    \/ Return
    \/ \E fields \in TimeCreateFields : StorageCreate(fields)
    \/ \E id \in AskIds, kw \in TimeUpdateKwargs : StorageUpdate(id, kw)
    \/ \E id \in AskIds : StorageDelete(id)

SpecTime == Init /\ [][NextTime]_vars

\* The store under a clock, with keyword maps that name a timestamp: an
\* instant later than any the clock shows.
StampCreateFields == { [hypothesis |-> Some(<<"a">>)] }
StampUpdateKwargs ==
    { [f \in {} |-> None],
      [created_at |-> MaxClock + 1],
      [updated_at |-> MaxClock + 1] }

NextStamp ==
    \/ Tick
    \/ Return
    \/ \E fields \in StampCreateFields : StorageCreate(fields)
    \/ \E id \in AskIds, kw \in StampUpdateKwargs : StorageUpdate(id, kw)
    \/ \E id \in AskIds : StorageDelete(id)

SpecStamp == Init /\ [][NextStamp]_vars

\* ------------------------------------------------------ crud over the table
\* An INSERT: the id is the sequence's next value, created_at and updated_at
\* are the server's now(), the columns the model_dump() of the ActivityCreate.
DbInserted(table, seq, fields, now) ==
    [i \in DOMAIN table \cup {seq} |->
        IF i = seq THEN NewActivity(seq, fields, now) ELSE table[i]]

\* crud.get_activity: the row with that id, or None.
CrudGetActivity(table, id) == IF id \in DOMAIN table THEN Some(table[id]) ELSE None

\* A dump that takes every field of the schema whatever the flag.
ModelDumpAll(body, partial) ==
    [f \in DataFields |-> IF f \in DOMAIN body THEN body[f] ELSE None]

\* activity.model_dump(exclude_unset=partial): the fields the request set when
\* partial, every field of ActivityUpdate (None by default) otherwise.
ModelDump(body, partial) ==
    IF partial THEN [f \in DOMAIN body \cap DataFields |-> body[f]]
    ELSE [f \in DataFields |-> IF f \in DOMAIN body THEN body[f] ELSE None]

\* The setattr loop of crud.update_activity.
CrudSetAttrs(row, update_data) ==
    [f \in AllFields |-> IF f \in DOMAIN update_data THEN update_data[f] ELSE row[f]]

\* db.commit(): hypothesis is nullable=False, so a row with a null hypothesis
\* is refused (IntegrityError) and the transaction is lost.
CommitRefused(row) == row.hypothesis = None

\* The UPDATE of a commit: it is sent only if some column changed, and then
\* onupdate=func.now() sets updated_at.
Flushed(old, new, now) ==
    IF new = old THEN old ELSE [new EXCEPT !.updated_at = now]

\* crud.update_activity: "not_found", "integrity_error" or "ok".
CrudUpdateOutcome(table, id, body, partial) ==
    IF id \notin DOMAIN table THEN "not_found"
    ELSE IF CommitRefused(CrudSetAttrs(table[id], ModelDump(body, partial)))
    THEN "integrity_error"
    ELSE "ok"

\* An update that writes the new row over every row of the table.
CrudUpdatedAll(table, id, body, partial, now) ==
    IF CrudUpdateOutcome(table, id, body, partial) = "ok"
    THEN [i \in DOMAIN table |->
            Flushed(table[i], CrudSetAttrs(table[i], ModelDump(body, partial)), now)]
    ELSE table

CrudUpdated(table, id, body, partial, now) ==
    IF CrudUpdateOutcome(table, id, body, partial) = "ok"
    THEN [table EXCEPT
            ![id] = Flushed(@, CrudSetAttrs(@, ModelDump(body, partial)), now)]
    ELSE table

\* crud.delete_activity
CrudDeleted(table, id) ==
    IF id \in DOMAIN table THEN [i \in DOMAIN table \ {id} |-> table[i]] ELSE table

\* ------------------------------------------------------------ REST endpoints
\* An HTTP response: its status and its JSON body; status 500 is an error
\* that no handler caught, body naming the exception.
Http(status, body) == [status |-> status, body |-> body]

\* ActivityCreate: hypothesis is required and must be a str.
ValidCreate(body) == "hypothesis" \in DOMAIN body /\ body.hypothesis # None

\* post_new_activity_notification: called only with a client; it catches every
\* error itself.
ApiNotifyOutcomes == IF slack_client THEN {"sent", "failed"} ELSE {"skipped"}

\* What create_activity returns, n being what became of the notification:
\* post_new_activity_notification returns False on every error.
ApiCreatedResponse(row, n) == Http(201, row)

\* POST /api/activities
ApiCreateActivity(body) ==
    /\ Idle
    /\ IF ~ValidCreate(body)
       THEN /\ last' = Call("api_create", body, Http(422, <<>>), <<>>, "none")
            /\ UNCHANGED <<mem, sql, env, clock, issued>>
       ELSE /\ db_seq <= MaxId
            /\ db' = DbInserted(db, db_seq, ModelDump(body, FALSE), clock)
            /\ db_seq' = db_seq + 1
            /\ \E n \in ApiNotifyOutcomes :
                   last' = Call("api_create", body, ApiCreatedResponse(db'[db_seq], n),
                                <<db_seq>>, n)
            /\ UNCHANGED <<mem, env, clock, issued>>

\* GET /api/activities/{id}
ApiGetActivity(id) ==
    /\ Idle
    /\ last' = Call("api_get", id,
                    IF CrudGetActivity(db, id) = None THEN Http(404, <<>>)
                    ELSE Http(200, Get(CrudGetActivity(db, id))),
                    <<>>, "none")
    /\ UNCHANGED <<mem, sql, env, clock, issued>>

\* The result of PUT (partial = FALSE) and PATCH (partial = TRUE) once the
\* body has passed validation.
ApiUpdateResponse(table, id, body, partial, now) ==
    LET outcome == CrudUpdateOutcome(table, id, body, partial) IN
    IF outcome = "not_found" THEN Http(404, <<>>)
    ELSE IF outcome = "integrity_error" THEN Http(500, "IntegrityError")
    ELSE Http(200, CrudUpdated(table, id, body, partial, now)[id])

\* PUT /api/activities/{id}: the body is an ActivityCreate, turned into an
\* ActivityUpdate with every field set.
ApiUpdateActivity(id, body) ==
    /\ Idle
    /\ IF ~ValidCreate(body)
       THEN /\ last' = Call("api_put", [id |-> id, body |-> body], Http(422, <<>>),
                            <<>>, "none")
            /\ UNCHANGED <<mem, sql, env, clock, issued>>
       ELSE /\ db' = CrudUpdated(db, id, ModelDump(body, FALSE), FALSE, clock)
            /\ last' = Call("api_put", [id |-> id, body |-> body],
                            ApiUpdateResponse(db, id, ModelDump(body, FALSE), FALSE, clock),
                            <<>>, "none")
            /\ UNCHANGED <<mem, db_seq, env, clock, issued>>

\* PATCH /api/activities/{id}
ApiPatchActivity(id, body) ==
    /\ Idle
    /\ db' = CrudUpdated(db, id, body, TRUE, clock)
    /\ last' = Call("api_patch", [id |-> id, body |-> body],
                    ApiUpdateResponse(db, id, body, TRUE, clock), <<>>, "none")
    /\ UNCHANGED <<mem, db_seq, env, clock, issued>>

\* DELETE /api/activities/{id}
ApiDeleteActivity(id) ==
    /\ Idle
    /\ db' = CrudDeleted(db, id)
    /\ last' = Call("api_delete", id,
                    IF id \in DOMAIN db THEN Http(204, <<>>) ELSE Http(404, <<>>),
                    <<>>, "none")
    /\ UNCHANGED <<mem, db_seq, env, clock, issued>>

\* Request bodies of POST and PUT (ActivityCreate) and of PATCH (ActivityUpdate).
CreateBodies ==
    { [hypothesis |-> Some(<<"a">>)],
      [hypothesis |-> Some(<<"b">>), audience |-> Some(<<"x">>), list_size |-> Some(5)],
      [hypothesis |-> Some(<<>>)],
      [audience |-> Some(<<"x">>)] }

PutBodies ==
    { [hypothesis |-> Some(<<"c">>), channels |-> Some(<<"e">>)],
      [audience |-> Some(<<"x">>)] }

PatchBodies ==
    { [f \in {} |-> None],
      [audience |-> None, list_size |-> Some(0)],
      [channels |-> Some(<<"e">>)],
      [hypothesis |-> None] }

NextApi ==
    \/ Return
    \/ \E body \in CreateBodies : ApiCreateActivity(body)
    \/ \E id \in AskIds : ApiGetActivity(id)
    \/ \E id \in AskIds, body \in PutBodies : ApiUpdateActivity(id, body)
    \/ \E id \in AskIds, body \in PatchBodies : ApiPatchActivity(id, body)
    \/ \E id \in AskIds : ApiDeleteActivity(id)

\* The REST endpoints of api/index.py over the activities table.
SpecApi == Init /\ [][NextApi]_vars

\* The table under a moving clock: POST and PATCH only.
TimePatchBodies == { [f \in {} |-> None], [list_size |-> Some(0)] }

NextApiTime ==
    \/ Tick
    \/ Return
    \/ \E body \in TimeCreateFields : ApiCreateActivity(body)
    \/ \E id \in AskIds, body \in TimePatchBodies : ApiPatchActivity(id, body)

SpecApiTime == Init /\ [][NextApiTime]_vars

\* --------------------------------------------- requests that run concurrently
\* Each request has a session of its own (get_db) over the one table; a
\* request reads with get_activity, works on the object it read, and writes at
\* db.commit().  The steps of different requests interleave; one step is one
\* statement or one commit.

\* The columns setattr changed on the loaded object: the ones the UPDATE of
\* the flush sets.
DirtyColumns(row, update_data) ==
    {f \in DOMAIN update_data : update_data[f] # row[f]}

\* The UPDATE ... WHERE id = :id of the flush, on the table as it is now.
RaceFlushed(table, id, row, update_data, now) ==
    [table EXCEPT ![id] =
        [f \in AllFields |->
            IF f \in DirtyColumns(row, update_data) THEN update_data[f]
            ELSE IF f = "updated_at" THEN now
            ELSE @[f]]]

\* What db.commit(); db.refresh(db_activity) of update_activity comes to
\* for the object a request loaded (row), on the table as it is now: the
\* UPDATE that matches no row raises StaleDataError, the refresh that finds
\* no row InvalidRequestError.
RaceUpdateResponse(table, id, row, update_data, now) ==
    IF CommitRefused(CrudSetAttrs(row, update_data))
    THEN Http(500, [exception |-> "IntegrityError"])
    ELSE IF DirtyColumns(row, update_data) = {}
    THEN IF id \in DOMAIN table THEN Http(200, table[id])
         ELSE Http(500, [exception |-> "InvalidRequestError"])
    ELSE IF id \in DOMAIN table
    THEN Http(200, RaceFlushed(table, id, row, update_data, now)[id])
    ELSE Http(500, [exception |-> "StaleDataError"])

RaceUpdated(table, id, row, update_data, now) ==
    IF /\ ~CommitRefused(CrudSetAttrs(row, update_data))
       /\ DirtyColumns(row, update_data) # {}
       /\ id \in DOMAIN table
    THEN RaceFlushed(table, id, row, update_data, now)
    ELSE table

\* POST /api/activities: the INSERT and its commit; the id comes from the
\* table's sequence.
RaceCreate(r, body) ==
    /\ sessions[r].pc = "idle"
    /\ db_seq <= MaxId
    /\ db' = DbInserted(db, db_seq, ModelDump(body, FALSE), clock)
    /\ db_seq' = db_seq + 1
    /\ sessions' = [sessions EXCEPT ![r] =
           [op |-> "create", id |-> db_seq, body |-> body, pc |-> "done",
            row |-> None, ret |-> Http(201, db'[db_seq])]]
    /\ UNCHANGED <<mem, slack_client, signing_secret, clock, issued, last>>

\* PATCH and DELETE /api/activities/{id}, first statement: get_activity.  A
\* request that finds no row answers 404 at once.
RaceSelect(r, op, id, body) ==
    /\ sessions[r].pc = "idle"
    /\ sessions' = [sessions EXCEPT ![r] =
           IF CrudGetActivity(db, id) = None
           THEN [op |-> op, id |-> id, body |-> body, pc |-> "done",
                 row |-> None, ret |-> Http(404, <<>>)]
           ELSE [op |-> op, id |-> id, body |-> body, pc |-> "selected",
                 row |-> CrudGetActivity(db, id), ret |-> <<>>]]
    /\ UNCHANGED <<mem, sql, slack_client, signing_secret, clock, issued, last>>

\* PATCH, the rest: setattr on the loaded object, db.commit(), db.refresh().
RaceCommitUpdate(r) ==
    /\ sessions[r].pc = "selected"
    /\ sessions[r].op = "patch"
    /\ LET q == sessions[r]
           update_data == ModelDump(q.body, TRUE)
       IN /\ db' = RaceUpdated(db, q.id, Get(q.row), update_data, clock)
          /\ sessions' = [sessions EXCEPT ![r] =
                 [q EXCEPT !.pc = "done",
                           !.ret = RaceUpdateResponse(db, q.id, Get(q.row),
                                                      update_data, clock)]]
    /\ UNCHANGED <<mem, db_seq, slack_client, signing_secret, clock, issued, last>>

\* DELETE, the rest: db.delete(db_activity), db.commit().  A DELETE that
\* matches no row only warns, and the request answers 204 all the same.
RaceCommitDelete(r) ==
    /\ sessions[r].pc = "selected"
    /\ sessions[r].op = "delete"
    /\ db' = CrudDeleted(db, sessions[r].id)
    /\ sessions' = [sessions EXCEPT ![r] =
           [@ EXCEPT !.pc = "done", !.ret = Http(204, <<>>)]]
    /\ UNCHANGED <<mem, db_seq, slack_client, signing_secret, clock, issued, last>>

\* The response is sent and the session closed (db.close()).
RaceClose(r) ==
    /\ sessions[r].pc = "done"
    /\ sessions' = [sessions EXCEPT ![r] = NoSession]
    /\ UNCHANGED <<mem, sql, slack_client, signing_secret, clock, issued, last>>

RaceCreateBodies == { [hypothesis |-> Some(<<"a">>), audience |-> Some(<<"x">>)] }
RacePatchBodies == { [f \in {} |-> None], [audience |-> Some(<<"y">>)] }

NextRace ==
    \/ \E r \in Requests, body \in RaceCreateBodies : RaceCreate(r, body)
    \/ \E r \in Requests, id \in AskIds, body \in RacePatchBodies :
          RaceSelect(r, "patch", id, body)
    \/ \E r \in Requests, id \in AskIds : RaceSelect(r, "delete", id, <<>>)
    \/ \E r \in Requests : RaceCommitUpdate(r)
    \/ \E r \in Requests : RaceCommitDelete(r)
    \/ \E r \in Requests : RaceClose(r)

SpecRace == Init /\ [][NextRace]_vars

\* The two ways to create an Activity that notify the channel, with deletes.
CreateAddTexts == { <<"a">>, <<"a", "|", "x">> }
CreateApiBodies ==
    { [hypothesis |-> Some(<<"a">>)],
      [hypothesis |-> Some(<<"b">>), audience |-> Some(<<"x">>)],
      [audience |-> Some(<<"x">>)] }

NextCreate ==
    \/ Return
    \/ \E text \in CreateAddTexts \cup { <<>> } : HandleGtmAdd(text)
    \/ \E body \in CreateApiBodies : ApiCreateActivity(body)
    \/ \E id \in AskIds : StorageDelete(id)
    \/ \E id \in AskIds : ApiDeleteActivity(id)

SpecCreate == Init /\ [][NextCreate]_vars

\* ------------------------------------------------------------------- lists
\* SQL LIKE on lowered text: % stands for any run of characters, _ for any one.
RECURSIVE LikeMatch(_, _)
LikeMatch(s, pattern) ==
    IF pattern = <<>> THEN s = <<>>
    ELSE IF Head(pattern) = "%"
    THEN LikeMatch(s, Tail(pattern)) \/ (s # <<>> /\ LikeMatch(Tail(s), pattern))
    ELSE /\ s # <<>>
         /\ (Head(pattern) = "_" \/ Head(pattern) = Head(s))
         /\ LikeMatch(Tail(s), Tail(pattern))

\* column.ilike(f"%{text}%"): a NULL column matches nothing.
ILike(value, text) ==
    value # None /\ LikeMatch(Lower(Get(value)), <<"%">> \o Lower(text) \o <<"%">>)

\* The filters of crud.get_activities: each one applies when it is truthy.
CrudFilterMatches(row, hypothesis, audience, channels) ==
    /\ TruthyStr(hypothesis) => ILike(row.hypothesis, Get(hypothesis))
    /\ TruthyStr(audience) => ILike(row.audience, Get(audience))
    /\ TruthyStr(channels) => ILike(row.channels, Get(channels))

\* The orders in which a SELECT without ORDER BY may return the rows K.
RowOrders(K) ==
    {order \in [1..Cardinality(K) -> K] :
        \A i, j \in 1..Cardinality(K) : i # j => order[i] # order[j]}

\* .offset(skip).limit(limit)
Window(seq, skip, limit) ==
    SubSeq(seq, skip + 1, IF Len(seq) < skip + limit THEN Len(seq) ELSE skip + limit)

\* crud.get_activities: the results the query may give, each the ids of the
\* rows returned, in order.
CrudGetActivities(table, skip, limit, hypothesis, audience, channels) ==
    {Window(order, skip, limit) :
        order \in RowOrders({k \in DOMAIN table :
                               CrudFilterMatches(table[k], hypothesis, audience, channels)})}

\* GET /api/activities: skip must be >= 0 and limit in 1..1000.
ApiListActivities(skip, limit, hypothesis, audience, channels) ==
    /\ Idle
    /\ \E ids \in (IF skip < 0 \/ limit < 1 \/ limit > 1000 THEN { <<>> }
                   ELSE CrudGetActivities(db, skip, limit, hypothesis, audience, channels)) :
          last' = Call("api_list",
                       [skip |-> skip, limit |-> limit, hypothesis |-> hypothesis,
                        audience |-> audience, channels |-> channels],
                       IF skip < 0 \/ limit < 1 \/ limit > 1000 THEN Http(422, <<>>)
                       ELSE Http(200, ids),
                       <<>>, "none")
    /\ UNCHANGED <<mem, sql, env, clock, issued>>

\* InMemoryStorage.list_all(limit, filter_text), called directly: the ids of
\* the activities returned, in order.
StorageListAll(limit, filter_text) ==
    /\ Idle
    /\ last' = Call("list_all", [limit |-> limit, filter_text |-> filter_text],
                    [i \in 1..Len(ListAll(activities, limit, filter_text)) |->
                        activities[ListAll(activities, limit, filter_text)[i]].id],
                    <<>>, "none")
    /\ UNCHANGED <<mem, sql, env, clock, issued>>

\* The records and the queries of the list operations.
ListAddTexts == { <<"a", "|", "x">>, <<"B", "a", "|", "y", "|", "e">> }
ListApiBodies ==
    { [hypothesis |-> Some(<<"a">>), audience |-> Some(<<"x">>)],
      [hypothesis |-> Some(<<"B", "a">>), audience |-> Some(<<"y">>),
       channels |-> Some(<<"e">>)] }
ListSkips == {0, 1}
ListLimits == {0, 1, 100}
ListHypotheses == {None, Some(<<>>), Some(<<"A">>), Some(<<"b">>), Some(<<"_", "a">>)}
ListAudiences == {None, Some(<<"X">>)}
ListChannels == {None, Some(<<"e">>)}
ListFilterTexts == {None, Some(<<"A">>), Some(<<"e">>), Some(<<"q">>)}

NextList ==
    \/ Return
    \/ \E text \in ListAddTexts : HandleGtmAdd(text)
    \/ \E body \in ListApiBodies : ApiCreateActivity(body)
    \/ \E skip \in ListSkips, limit \in ListLimits, hypothesis \in ListHypotheses,
          audience \in ListAudiences, channels \in ListChannels :
           ApiListActivities(skip, limit, hypothesis, audience, channels)
    \/ \E limit \in {1, ListLimit}, filter_text \in ListFilterTexts :
           StorageListAll(limit, filter_text)

\* The list operations of the two stores.
SpecList == Init /\ [][NextList]_vars

\* ------------------------------------------------------------- CSV import
\* A row of csv.DictReader is a map from column name to cell; a cell is a str,
\* or None when the line has fewer fields than the header (restval).
\* row.get(col, default):
RowGet(row, col, default) == IF col \in DOMAIN row THEN row[col] ELSE default

\* utils.parse_int, and the guarded int() of import_csv_data: None for a
\* missing, blank or unparsable value.
ParseIntLenient(value) ==
    IF ~TruthyStr(value) \/ Strip(Get(value)) = <<>> THEN None
    ELSE ParseInt(Strip(Get(value)))

\* s.strip() or None
StripOrNone(s) == IF Strip(s) = <<>> THEN None ELSE Some(Strip(s))

\* --------------------------------------------------------------- parse_date
\* datetime.strptime(s, fmt).date(): the date, or None for the ValueError of
\* a text that does not match the format or names no day of the calendar.
MonthNames ==
    << <<"j", "a", "n", "u", "a", "r", "y">>,
       <<"f", "e", "b", "r", "u", "a", "r", "y">>,
       <<"m", "a", "r", "c", "h">>,
       <<"a", "p", "r", "i", "l">>,
       <<"m", "a", "y">>,
       <<"j", "u", "n", "e">>,
       <<"j", "u", "l", "y">>,
       <<"a", "u", "g", "u", "s", "t">>,
       <<"s", "e", "p", "t", "e", "m", "b", "e", "r">>,
       <<"o", "c", "t", "o", "b", "e", "r">>,
       <<"n", "o", "v", "e", "m", "b", "e", "r">>,
       <<"d", "e", "c", "e", "m", "b", "e", "r">> >>

DaysIn(y, m) ==
    IF m = 2 THEN (IF y % 4 = 0 /\ (y % 100 # 0 \/ y % 400 = 0) THEN 29 ELSE 28)
    ELSE IF m \in {4, 6, 9, 11} THEN 30 ELSE 31

\* %Y is four digits, %m and %d one or two; -1 when the text is not that.
DateNumber(s, widths) == IF AllDigits(s) /\ Len(s) \in widths THEN DigitsVal(s) ELSE -1

MakeDate(y, m, d) ==
    IF y >= 1 /\ m \in 1..12 /\ d >= 1 /\ d <= DaysIn(y, m)
    THEN Some([year |-> y, month |-> m, day |-> d])
    ELSE None

\* The pieces of s between runs of sep.
NonEmptyParts(s, sep) == SelectSeq(Split(s, sep), LAMBDA part : part # <<>>)

\* %B and %b: the month whose name, or whose name cut to three letters, the
\* text is, whatever the case of its letters; 0 when there is none.
MonthOf(name, short) ==
    LET names == [i \in 1..12 |->
                    IF short THEN SubSeq(MonthNames[i], 1, 3) ELSE MonthNames[i]]
    IN IF \E i \in 1..12 : names[i] = Lower(name)
       THEN CHOOSE i \in 1..12 : names[i] = Lower(name)
       ELSE 0

Strptime(s, fmt) ==
    LET dashes == Split(s, "-")
        slashes == Split(s, "/")
        words == NonEmptyParts(s, " ")
        Numeric(p, iy, im, id) ==
            IF Len(p) # 3 THEN None
            ELSE MakeDate(DateNumber(p[iy], {4}), DateNumber(p[im], {1, 2}),
                          DateNumber(p[id], {1, 2}))
        Named(short) ==
            IF Len(words) # 3 \/ ~EndsWith(words[2], <<",">>) THEN None
            ELSE MakeDate(DateNumber(words[3], {4}), MonthOf(words[1], short),
                          DateNumber(SubSeq(words[2], 1, Len(words[2]) - 1), {1, 2}))
    IN CASE fmt = "%Y-%m-%d" -> Numeric(dashes, 1, 2, 3)
         [] fmt = "%d-%m-%Y" -> Numeric(dashes, 3, 2, 1)
         [] fmt = "%m/%d/%Y" -> Numeric(slashes, 3, 1, 2)
         [] fmt = "%d/%m/%Y" -> Numeric(slashes, 3, 2, 1)
         [] fmt = "%Y/%m/%d" -> Numeric(slashes, 1, 2, 3)
         [] fmt = "%B %d, %Y" -> Named(FALSE)
         [] fmt = "%b %d, %Y" -> Named(TRUE)

\* for fmt in formats: try: return strptime(...) except ValueError: continue
RECURSIVE FirstParse(_, _, _)
FirstParse(s, formats, k) ==
    IF k > Len(formats) THEN None
    ELSE IF Strptime(s, formats[k]) # None THEN Strptime(s, formats[k])
    ELSE FirstParse(s, formats, k + 1)

UtilsDateFormats ==
    <<"%Y-%m-%d", "%m/%d/%Y", "%d/%m/%Y", "%B %d, %Y", "%b %d, %Y", "%Y/%m/%d", "%d-%m-%Y">>
ImportDataDateFormats == <<"%B %d, %Y", "%Y-%m-%d", "%m/%d/%Y">>

\* utils.parse_date: a date, or None.
UtilsParseDate(date_str) ==
    IF ~TruthyStr(date_str) \/ Strip(Get(date_str)) = <<>> THEN None
    ELSE FirstParse(Strip(Get(date_str)), UtilsDateFormats, 1)

\* strftime("%Y-%m-%d")
ZeroPadded(n, width) ==
    [i \in 1..(width - Len(NatToText(n))) |-> "0"] \o NatToText(n)
Strftime(date) ==
    ZeroPadded(date.year, 4) \o <<"-">> \o ZeroPadded(date.month, 2)
      \o <<"-">> \o ZeroPadded(date.day, 2)

\* import_data.parse_date: the date as text, the stripped text itself when
\* no format matches, or None.
ImportDataParseDate(date_str) ==
    IF ~TruthyStr(date_str) \/ Strip(Get(date_str)) = <<>> THEN None
    ELSE IF FirstParse(Strip(Get(date_str)), ImportDataDateFormats, 1) # None
    THEN Some(Strftime(Get(FirstParse(Strip(Get(date_str)), ImportDataDateFormats, 1))))
    ELSE Some(Strip(Get(date_str)))

\* import_csv_data, one row: "fail" is the AttributeError of None.strip(),
\* "skip" the `continue` of an empty hypothesis.  No markdown file matches.
ImportDataRowStatus(row) ==
    IF RowGet(row, "Hypothesis", Some(<<>>)) = None THEN "fail"
    ELSE IF Strip(Get(RowGet(row, "Hypothesis", Some(<<>>)))) = <<>> THEN "skip"
    ELSE IF RowGet(row, "Audience", Some(<<>>)) = None
            \/ RowGet(row, "Channels", Some(<<>>)) = None THEN "fail"
    ELSE "create"

ImportDataRowFields(row) ==
    [hypothesis      |-> Some(Strip(Get(RowGet(row, "Hypothesis", Some(<<>>))))),
     audience        |-> StripOrNone(Get(RowGet(row, "Audience", Some(<<>>)))),
     channels        |-> StripOrNone(Get(RowGet(row, "Channels", Some(<<>>)))),
     description     |-> IF TruthyStr(RowGet(row, "Description/Activities", None))
                         THEN Some(Strip(Get(row["Description/Activities"])))
                         ELSE None,
     list_size       |-> ParseIntLenient(RowGet(row, "List size", None)),
     meetings_booked |-> ParseIntLenient(RowGet(row, "Meetings booked", None)),
     start_date      |-> ImportDataParseDate(RowGet(row, "T1 Date or Start", Some(<<>>))),
     end_date        |-> ImportDataParseDate(RowGet(row, "End Date", Some(<<>>)))]

\* The loop of import_csv_data from row k on: the store afterwards, the ids
\* created, and the count returned, or "AttributeError" when a row raised.
RECURSIVE ImportDataRun(_, _, _, _, _, _)
ImportDataRun(acts, n, rows, k, created, now) ==
    IF k > Len(rows)
    THEN [acts |-> acts, next_id |-> n, created |-> created, ret |-> Some(Len(created))]
    ELSE LET status == ImportDataRowStatus(rows[k]) IN
         IF status = "fail"
         THEN [acts |-> acts, next_id |-> n, created |-> created, ret |-> "AttributeError"]
         ELSE IF status = "skip"
         THEN ImportDataRun(acts, n, rows, k + 1, created, now)
         ELSE ImportDataRun(StorageCreated(acts, n, ImportDataRowFields(rows[k]), now),
                            StorageNextIdAfterCreate(
                                StorageCreated(acts, n, ImportDataRowFields(rows[k]), now), n),
                            rows, k + 1,
                            Append(created, n), now)

\* import_data.import_csv_data(csv_path) on a file that exists.
ImportCsvData(file) ==
    /\ Idle
    /\ LET run == ImportDataRun(activities, next_id, file, 1, <<>>, clock) IN
       /\ run.next_id <= MaxId + 1
       /\ activities' = run.acts
       /\ next_id' = run.next_id
       /\ issued' = issued \cup {run.created[i] : i \in 1..Len(run.created)}
       /\ last' = Call("import_csv_data", file, run.ret, run.created, "none")
    /\ UNCHANGED <<sql, env, clock>>

\* import_csv_to_db: row.get(a, '').strip() or row.get(b, '').strip() or ...
\* over the column names cols: "fail" when a cell reached is None.
RECURSIVE FirstStripped(_, _, _)
FirstStripped(row, cols, k) ==
    IF k > Len(cols) THEN Some(<<>>)
    ELSE IF RowGet(row, cols[k], Some(<<>>)) = None THEN "fail"
    ELSE IF Strip(Get(RowGet(row, cols[k], Some(<<>>)))) # <<>>
         THEN Some(Strip(Get(RowGet(row, cols[k], Some(<<>>)))))
    ELSE FirstStripped(row, cols, k + 1)

\* row.get(a) or row.get(b) or row.get(c, '')
RECURSIVE FirstTruthy(_, _, _)
FirstTruthy(row, cols, k) ==
    IF k = Len(cols) THEN RowGet(row, cols[k], Some(<<>>))
    ELSE IF TruthyStr(RowGet(row, cols[k], None)) THEN row[cols[k]]
    ELSE FirstTruthy(row, cols, k + 1)

HypothesisColumns == <<"Hypothesis", "hypothesis">>
AudienceColumns == <<"Audience", "audience">>
ChannelsColumns == <<"Channels", "channels">>
DescriptionColumns == <<"Description/Activities", "Description", "description">>

ImportDbRowFails(row) ==
    \E cols \in {HypothesisColumns, AudienceColumns, ChannelsColumns, DescriptionColumns} :
        FirstStripped(row, cols, 1) = "fail"

\* The GTMActivity import_csv_to_db builds from a row that does not fail; the
\* files have no hours column.
OrNone(o) == IF TruthyStr(o) THEN o ELSE None

ImportDbRowFields(row) ==
    [hypothesis      |-> FirstStripped(row, HypothesisColumns, 1),
     audience        |-> OrNone(FirstStripped(row, AudienceColumns, 1)),
     channels        |-> OrNone(FirstStripped(row, ChannelsColumns, 1)),
     description     |-> OrNone(FirstStripped(row, DescriptionColumns, 1)),
     list_size       |-> ParseIntLenient(FirstTruthy(row,
                             <<"List size", "List Size", "list_size">>, 1)),
     meetings_booked |-> ParseIntLenient(FirstTruthy(row,
                             <<"Meetings booked", "Meetings Booked", "meetings_booked">>, 1)),
     start_date      |-> UtilsParseDate(FirstTruthy(row,
                             <<"T1 Date or Start", "Start Date", "start_date">>, 1)),
     end_date        |-> UtilsParseDate(FirstTruthy(row, <<"End Date", "end_date">>, 1)),
     est_weekly_hrs  |-> None]

\* The rows of the session inserted by the commit, in order.
RECURSIVE DbInsertedAll(_, _, _, _, _)
DbInsertedAll(table, seq, rows, k, now) ==
    IF k > Len(rows) THEN table
    ELSE DbInsertedAll(DbInserted(table, seq, ImportDbRowFields(rows[k]), now),
                       seq + 1, rows, k + 1, now)

\* POST /api/import-csv: file is None when data/activities.csv does not exist.
\* An exception in the loop leaves the session uncommitted.
ApiImportCsv(file) ==
    /\ Idle
    /\ IF file = None
       THEN /\ last' = Call("api_import_csv", file, Http(404, <<>>), <<>>, "none")
            /\ UNCHANGED sql
       ELSE IF \E k \in 1..Len(Get(file)) : ImportDbRowFails(Get(file)[k])
       THEN /\ last' = Call("api_import_csv", file, Http(500, [detail |-> "AttributeError"]),
                            <<>>, "none")
            /\ UNCHANGED sql
       ELSE /\ db_seq + Len(Get(file)) <= MaxId + 1
            /\ db' = DbInsertedAll(db, db_seq, Get(file), 1, clock)
            /\ db_seq' = db_seq + Len(Get(file))
            /\ last' = Call("api_import_csv", file,
                            Http(200, [count |-> Len(Get(file))]),
                            [i \in 1..Len(Get(file)) |-> db_seq + i - 1], "none")
    /\ UNCHANGED <<mem, env, clock, issued>>

\* The rows of the files: a full row, one with a blank hypothesis, one whose
\* number is no number, and a line with a single field.
RowGood ==
    ("Hypothesis" :> Some(<<"a">>)) @@ ("Audience" :> Some(<<"x", " ">>))
      @@ ("List size" :> Some(<<"7">>))
RowEmpty ==
    ("Hypothesis" :> Some(<<" ">>)) @@ ("Audience" :> Some(<<"y">>))
      @@ ("List size" :> Some(<<>>))
RowBadNumber ==
    ("Hypothesis" :> Some(<<"d">>)) @@ ("Audience" :> Some(<<>>))
      @@ ("List size" :> Some(<<"x">>))
RowShort ==
    ("Hypothesis" :> Some(<<"c">>)) @@ ("Audience" :> None) @@ ("List size" :> None)

CsvRows == {RowGood, RowEmpty, RowBadNumber, RowShort}

\* Largest number of rows of a file.
MaxRows == 3

CsvFiles == UNION {[1..n -> CsvRows] : n \in 0..MaxRows}

NextImport ==
    \/ Return
    \/ \E file \in CsvFiles : ImportCsvData(file)
    \/ \E file \in {None} \cup {Some(f) : f \in CsvFiles} : ApiImportCsv(file)

\* The two CSV importers, each over its own store.
SpecImport == Init /\ [][NextImport]_vars

\* Files with a date column: a cell for every format the importers know, a
\* day-first date, a date that is no day of the calendar, a text that is no
\* date, a blank, and a line that ends before the column.
DateTexts ==
    { <<"2", "0", "2", "4", "-", "0", "1", "-", "1", "5">>,
      <<"0", "1", "/", "0", "2", "/", "2", "0", "2", "4">>,
      <<"1", "5", "/", "0", "1", "/", "2", "0", "2", "4">>,
      <<"J", "a", "n", "u", "a", "r", "y", " ", "5", ",", " ", "2", "0", "2", "4">>,
      <<"1", "5", "-", "0", "1", "-", "2", "0", "2", "4">>,
      <<"x">>,
      <<" ">>,
      <<"0", "2", "/", "3", "0", "/", "2", "0", "2", "4">> }

DateRows ==
    { ("Hypothesis" :> Some(<<"a">>)) @@ ("T1 Date or Start" :> Some(text)) :
      text \in DateTexts }
    \cup { ("Hypothesis" :> Some(<<"a">>)) @@ ("T1 Date or Start" :> None) }

DateFiles == { <<row>> : row \in DateRows }

NextDate ==
    \/ Return
    \/ \E file \in DateFiles : ImportCsvData(file)
    \/ \E file \in {Some(f) : f \in DateFiles} : ApiImportCsv(file)

\* The two CSV importers over files with a date column.
SpecDate == Init /\ [][NextDate]_vars

\* ------------------------------------------------- request signature check
\* The freshness window of verify_slack_request, in seconds (60 * 5).
FreshnessWindow == 300

\* int(time.time()): the clock counts seconds from an arbitrary instant.
CurrentTime(c) == 1000 + c

\* f"v0:{timestamp}:{body}"
SigBaseString(timestamp, body) == <<"v", "0", ":">> \o timestamp \o <<":">> \o body

\* hmac.new(key, msg, sha256).hexdigest(): a digest that only the same key and
\* the same message give.
HmacSha256Hex(key, msg) == [key |-> key, msg |-> msg]

\* 'v0=' + digest; a header value is a str: <<>> is the empty string.
SignatureOf(key, timestamp, body) ==
    <<"v0=", HmacSha256Hex(key, SigBaseString(timestamp, body))>>

\* A window check that forgets the sign of the age.
StaleOneSided(current_time, t) == current_time - t > FreshnessWindow

\* abs(current_time - int(timestamp)) > 60 * 5
Stale(current_time, t) == Abs(current_time - t) > FreshnessWindow

\* verify_slack_request: "accept" is True, "reject" is False, "ValueError" is
\* the error int(timestamp) raises.
VerifySlackRequest(secret, current_time, timestamp, body, signature) ==
    IF secret = "" THEN "accept"
    ELSE IF ParseInt(timestamp) = None THEN "ValueError"
    ELSE IF Stale(current_time, Get(ParseInt(timestamp))) THEN "reject"
    ELSE IF SignatureOf(secret, timestamp, body) = signature THEN "accept"
    ELSE "reject"

\* verify_slack_signature: the HTTP status it raises, 200 when it returns True.
VerifySlackSignature(secret, current_time, timestamp, body, signature) ==
    IF timestamp = <<>> \/ signature = <<>> THEN 400
    ELSE LET v == VerifySlackRequest(secret, current_time, timestamp, body, signature) IN
         IF v = "accept" THEN 200 ELSE IF v = "reject" THEN 403 ELSE 500

\* A request as its sender made it: signed with `key` at `now - age`, then
\* possibly altered on the way.
SigAges == {-301, -300, -60, 0, 60, 300, 301, 360}
SigKeys == {Secret, "z"}
SigTampers == {"none", "body", "timestamp", "signature", "text_timestamp"}
SigBody == <<"c", "=", "1">>

SentTimestamp(now, age, tamper) ==
    IF tamper = "text_timestamp" THEN <<"n", "o", "w">> ELSE IntToText(now - age)

SignedRequest(now, age, key, tamper) ==
    LET ts == SentTimestamp(now, age, tamper) IN
    [timestamp |-> IF tamper = "timestamp" THEN IntToText(now - age + 1) ELSE ts,
     body      |-> IF tamper = "body" THEN SigBody \o <<"0">> ELSE SigBody,
     signature |-> IF tamper = "signature" THEN <<"v0=", HmacSha256Hex("", <<>>)>>
                   ELSE SignatureOf(key, ts, SigBody)]

VerifyRequest(age, key, tamper) ==
    /\ Idle
    /\ LET r == SignedRequest(CurrentTime(clock), age, key, tamper) IN
       last' = Call("verify", [age |-> age, key |-> key, tamper |-> tamper, request |-> r],
                    VerifySlackRequest(signing_secret, CurrentTime(clock),
                                       r.timestamp, r.body, r.signature),
                    <<>>, "none")
    /\ UNCHANGED <<mem, sql, env, clock, issued>>

InitSig ==
    /\ activities = <<>>
    /\ next_id = 1
    /\ db = <<>>
    /\ db_seq = 1
    /\ slack_client = FALSE
    /\ signing_secret \in {"", Secret}
    /\ clock = 0
    /\ issued = {}
    /\ last = NoCall
    /\ sessions = [r \in Requests |-> NoSession]

NextSig ==
    \/ Tick
    \/ Return
    \/ \E age \in SigAges, key \in SigKeys, tamper \in SigTampers :
           VerifyRequest(age, key, tamper)

\* verify_slack_request applied to requests of every age, signer and alteration.
SpecSig == InitSig /\ [][NextSig]_vars

\* ---------------------------------------------------------- Slack webhooks
\* A 200 JSONResponse with a private message, the JSONResponse {"ok": True},
\* and the 500 of an exception that nothing catches.
Ephemeral(text) == Http(200, [response_type |-> "ephemeral", text |-> text])
OkTrue == Http(200, [ok |-> TRUE])
Fault(exception) == Http(500, [exception |-> exception])

\* The headers and raw body a webhook request arrives with: signed by Slack
\* now, without the two headers, signed with another key, or signed by Slack
\* six minutes ago.
AuthCases == {"signed", "missing", "forged", "stale"}

WebhookHeaders(auth, now, body) ==
    LET ts == IF auth = "stale" THEN IntToText(now - 360) ELSE IntToText(now) IN
    IF auth = "missing" THEN [timestamp |-> <<>>, signature |-> <<>>, body |-> body]
    ELSE [timestamp |-> ts,
          signature |-> SignatureOf(IF auth = "forged" THEN "z" ELSE Secret, ts, body),
          body      |-> body]

\* slack_commands calls handle_gtm_list(db, text or None): filter_text is the
\* Session, which is truthy and has no lower().
DispatchGtmList == Fault("AttributeError")
\* handle_gtm_view(db, text): activity_id_str is the Session: no lower().
DispatchGtmView == Fault("AttributeError")
\* handle_gtm_add(db, text): two positional arguments for one parameter.
DispatchGtmAdd == Fault("TypeError")

\* The /gtm-update arm of slack_commands: the responses it can give.
GtmUpdateResponses(table, client, text, trigger_id) ==
    IF text = <<>> THEN {Ephemeral("update_usage")}
    ELSE IF ParseInt(text) = None THEN {Ephemeral("invalid_id")}
    ELSE IF CrudGetActivity(table, Get(ParseInt(text))) = None THEN {Ephemeral("not_found")}
    ELSE IF client /\ TruthyStr(trigger_id)
    THEN {Ephemeral("modal_opened"), Ephemeral("error_opening_modal")}
    ELSE {Ephemeral("no_client_or_trigger")}

\* slack_commands: the responses to a command with that text.
SlackCommandsResponses(table, client, command, text, trigger_id) ==
    IF command = "/gtm-help" THEN {Ephemeral("help")}
    ELSE IF command = "/gtm-list" THEN {DispatchGtmList}
    ELSE IF command = "/gtm-view" THEN {DispatchGtmView}
    ELSE IF command = "/gtm-add" THEN {DispatchGtmAdd}
    ELSE IF command = "/gtm-update"
    THEN GtmUpdateResponses(table, client, Strip(text), trigger_id)
    ELSE {Ephemeral("unknown_command")}

\* POST /api/slack/commands
SlackCommands(command, text, trigger_id, auth) ==
    /\ Idle
    /\ \E r \in SlackCommandsResponses(db, slack_client, command, text, trigger_id) :
           last' = Call("slack_command",
                        [command |-> command, text |-> text, trigger_id |-> trigger_id,
                         request |-> WebhookHeaders(auth, CurrentTime(clock),
                                                    <<command>> \o text)],
                        r, <<>>, "none")
    /\ UNCHANGED <<mem, sql, env, clock, issued>>

\* parse_modal_submission: the six fields of the form, a blank one as None;
\* error is the ValueError of int() on a number field that is no number.
ModalValue(values, f) == IF f \in DOMAIN values THEN values[f] ELSE None

ModalNumberIsBad(values, f) ==
    LET v == ModalValue(values, f) IN
    TruthyStr(v) /\ Strip(Get(v)) # <<>> /\ ParseInt(Get(v)) = None

ModalNumber(values, f) ==
    LET v == ModalValue(values, f) IN
    IF TruthyStr(v) /\ Strip(Get(v)) # <<>> THEN ParseInt(Get(v)) ELSE None

ParseModalSubmission(values) ==
    [error |-> ModalNumberIsBad(values, "list_size")
                 \/ ModalNumberIsBad(values, "meetings_booked"),
     data  |-> [f \in {"hypothesis", "audience", "channels", "description",
                       "list_size", "meetings_booked"} |->
                  IF f = "hypothesis" THEN ModalValue(values, f)
                  ELSE IF f \in {"list_size", "meetings_booked"}
                       THEN ModalNumber(values, f)
                  ELSE IF TruthyStr(ModalValue(values, f)) THEN ModalValue(values, f)
                  ELSE None]]

ViewActivityPrefix == <<"v", "i", "e", "w", "_", "a", "c", "t", "i", "v", "i", "t", "y", "_">>
EditActivityPrefix == <<"e", "d", "i", "t", "_", "a", "c", "t", "i", "v", "i", "t", "y", "_">>
DeleteActivityPrefix ==
    <<"d", "e", "l", "e", "t", "e", "_", "a", "c", "t", "i", "v", "i", "t", "y", "_">>
UpdateActivityPrefix ==
    <<"u", "p", "d", "a", "t", "e", "_", "a", "c", "t", "i", "v", "i", "t", "y", "_">>
\* The action_id of the "Share with Channel" button handle_gtm_view renders.
ShareActivityPrefix ==
    <<"s", "h", "a", "r", "e", "_", "a", "c", "t", "i", "v", "i", "t", "y", "_">>

\* An outcome of slack_interactive: the table afterwards and the response.
Outcome(table, ret) == [table |-> table, ret |-> ret]

\* The block_actions arm of slack_interactive.
BlockActionsOutcomes(table, client, actions) ==
    IF actions = <<>> THEN {Outcome(table, OkTrue)}
    ELSE LET action_id == actions[1].action_id
             value == ParseInt(actions[1].value)
         IN IF StartsWith(action_id, ViewActivityPrefix)
            THEN {Outcome(table, IF value = None THEN Fault("ValueError")
                                 ELSE DispatchGtmView)}
            ELSE IF StartsWith(action_id, EditActivityPrefix)
            THEN IF value = None THEN {Outcome(table, Fault("ValueError"))}
                 ELSE IF CrudGetActivity(table, Get(value)) = None
                 THEN {Outcome(table, Ephemeral("not_found"))}
                 ELSE IF client
                 THEN {Outcome(table, OkTrue), Outcome(table, Fault("SlackApiError"))}
                 ELSE {Outcome(table, OkTrue)}
            ELSE IF StartsWith(action_id, DeleteActivityPrefix)
            THEN IF value = None THEN {Outcome(table, Fault("ValueError"))}
                 ELSE {Outcome(CrudDeleted(table, Get(value)),
                               IF Get(value) \in DOMAIN table THEN Ephemeral("deleted")
                               ELSE Ephemeral("not_found"))}
            ELSE {Outcome(table, OkTrue)}

\* The view_submission arm of slack_interactive.
ViewSubmissionOutcomes(table, view, now) ==
    IF ~StartsWith(view.callback_id, UpdateActivityPrefix) THEN {Outcome(table, OkTrue)}
    ELSE LET segments == Split(view.callback_id, "_")
             activity_id == ParseInt(segments[Len(segments)])
             form_data == ParseModalSubmission(view.values)
         IN IF activity_id = None \/ form_data.error
            THEN {Outcome(table, Fault("ValueError"))}
            ELSE LET outcome == CrudUpdateOutcome(table, Get(activity_id),
                                                  form_data.data, TRUE)
                 IN IF outcome = "integrity_error"
                    THEN {Outcome(table, Fault("IntegrityError"))}
                    ELSE IF outcome = "not_found"
                    THEN {Outcome(table, Http(200, [response_action |-> "errors",
                                                    errors |-> "hypothesis"]))}
                    ELSE {Outcome(CrudUpdated(table, Get(activity_id), form_data.data,
                                              TRUE, now),
                                  Http(200, [response_action |-> "clear"]))}

SlackInteractiveOutcomes(table, client, payload, now) ==
    IF payload.type = "block_actions"
    THEN BlockActionsOutcomes(table, client, payload.actions)
    ELSE IF payload.type = "view_submission"
    THEN ViewSubmissionOutcomes(table, payload.view, now)
    ELSE {Outcome(table, OkTrue)}

\* POST /api/slack/interactive
SlackInteractive(payload, auth) ==
    /\ Idle
    /\ \E o \in SlackInteractiveOutcomes(db, slack_client, payload, clock) :
          /\ db' = o.table
          /\ last' = Call("slack_interaction",
                          [payload |-> payload,
                           request |-> WebhookHeaders(auth, CurrentTime(clock),
                                                      <<"payload=", payload.type>>)],
                          o.ret, <<>>, "none")
    /\ UNCHANGED <<mem, db_seq, env, clock, issued>>

\* The inputs of the webhooks.
SlackCommandNames ==
    {"/gtm-help", "/gtm-list", "/gtm-view", "/gtm-add", "/gtm-update", "/gtm-x"}
SlackTexts == { <<>>, <<"1">>, <<" ", "3">>, <<"x">>, <<"a", "|", "x">> }
TriggerIds == {None, Some(<<"t">>)}

IdTexts == {IntToText(i) : i \in AskIds} \cup { <<"x">> }

BlockActionsPayloads ==
    { [type |-> "block_actions", actions |-> <<>>] }
    \cup { [type |-> "block_actions",
            actions |-> << [action_id |-> prefix \o v, value |-> v] >>] :
           prefix \in {ViewActivityPrefix, EditActivityPrefix, DeleteActivityPrefix,
                       ShareActivityPrefix},
           v \in IdTexts }

ModalForms ==
    { [hypothesis |-> Some(<<"h">>), audience |-> Some(<<>>), list_size |-> Some(<<"7">>)],
      [hypothesis |-> None, channels |-> Some(<<"e">>)],
      [hypothesis |-> Some(<<>>), list_size |-> Some(<<"x">>)],
      [hypothesis |-> Some(<<>>), meetings_booked |-> Some(<<" ">>)] }

ViewSubmissionPayloads ==
    { [type |-> "view_submission",
       view |-> [callback_id |-> prefix \o v, values |-> values]] :
      prefix \in {UpdateActivityPrefix, <<"n", "e", "w", "_">>},
      v \in IdTexts, values \in ModalForms }

InteractivePayloads ==
    BlockActionsPayloads \cup ViewSubmissionPayloads \cup { [type |-> "shortcut"] }

SlackSeedBodies ==
    { [hypothesis |-> Some(<<"b">>), audience |-> Some(<<"x">>), list_size |-> Some(5)] }

NextSlack ==
    \/ Return
    \/ \E body \in SlackSeedBodies : ApiCreateActivity(body)
    \/ \E command \in SlackCommandNames, text \in SlackTexts,
          trigger_id \in TriggerIds, auth \in AuthCases :
           SlackCommands(command, text, trigger_id, auth)
    \/ \E payload \in InteractivePayloads, auth \in AuthCases :
           SlackInteractive(payload, auth)

\* ----------------------------------------------------------- the update form
FormFields ==
    {"hypothesis", "audience", "channels", "description", "list_size", "meetings_booked"}

\* create_update_modal: the callback id and the initial_value of each input.
CreateUpdateModal(activity) ==
    [callback_id |-> UpdateActivityPrefix \o IntToText(activity.id),
     initial |-> [f \in FormFields |->
                    IF f \in {"list_size", "meetings_booked"}
                    THEN (IF TruthyInt(activity[f]) THEN IntToText(Get(activity[f])) ELSE <<>>)
                    ELSE (IF TruthyStr(activity[f]) THEN Get(activity[f]) ELSE <<>>)]]

\* The view_submission event of a form submitted as it was opened: every
\* input holds its initial value, an input left empty the value null.
UneditedSubmission(activity) ==
    [type |-> "view_submission",
     view |-> [callback_id |-> CreateUpdateModal(activity).callback_id,
               values |-> [f \in FormFields |->
                             IF CreateUpdateModal(activity).initial[f] = <<>> THEN None
                             ELSE Some(CreateUpdateModal(activity).initial[f])]]]

ModalSeedBodies ==
    { [hypothesis |-> Some(<<"h">>)],
      [hypothesis |-> Some(<<"h">>), audience |-> Some(<<"x">>), list_size |-> Some(0),
       est_weekly_hrs |-> Some(2)],
      [hypothesis |-> Some(<<"b">>), channels |-> Some(<<"e">>), list_size |-> Some(12),
       meetings_booked |-> Some(0), start_date |-> Some(<<"2">>)],
      [hypothesis |-> Some(<<"b">>), description |-> Some(<<"d", " ">>), list_size |-> Some(7),
       meetings_booked |-> Some(3)] }

NextModal ==
    \/ Return
    \/ \E body \in ModalSeedBodies : ApiCreateActivity(body)
    \/ \E id \in DOMAIN db, auth \in AuthCases :
           SlackInteractive(UneditedSubmission(db[id]), auth)

\* Update forms built from the rows of the table and submitted unedited.
SpecModal == Init /\ [][NextModal]_vars

\* The two Slack webhooks of api/index.py over a table filled through the API.
SpecSlack == Init /\ [][NextSlack]_vars

\* ================================================================ claims
EmptyMap == [f \in {} |-> None]

\* The id a get, update or delete call was made for.
CallId(c) == IF c.op = "update" THEN c.arg.id ELSE c.arg

\* C1: every id returned by create is strictly greater than every id create
\* returned before, also after deletes: no id is assigned twice.
C1_CreateIdsIncrease ==
    [][\A k \in 1..Len(last'.created) :
          /\ \A j \in issued : last'.created[k] > j
          /\ \A m \in 1..(k - 1) : last'.created[k] > last'.created[m]]_vars

\* A create that follows the deletion of an earlier record.
C1_Witness ==
    /\ last.op = "create"
    /\ last.created = <<2>>
    /\ 1 \in issued
    /\ 1 \notin DOMAIN activities

\* C6: get, update and delete of an id the store does not hold return None /
\* False and change neither the records nor the id counter.
C6_MissingIdIsNotFound ==
    [][(/\ last'.op \in {"get", "update", "delete"}
        /\ CallId(last') \notin DOMAIN activities)
       => /\ last'.ret = (IF last'.op = "delete" THEN FALSE ELSE None)
          /\ activities' = activities
          /\ next_id' = next_id]_vars

\* An update of an absent id, with other records in the store.
C6_Witness ==
    /\ last.op = "update"
    /\ last.arg.id \notin DOMAIN activities
    /\ last.arg.kw # EmptyMap
    /\ activities # <<>>

C8_TableEmptyPatchKeepsRow ==
    [][(/\ last'.op = "api_patch"
        /\ last'.arg.body = EmptyMap
        /\ last'.arg.id \in DOMAIN db)
       => (last'.ret.status = 200 /\ db' = db)]_vars

\* C8, table: a PATCH that changes a column moves updated_at to now.
C8_TablePatchRefreshes ==
    [][(/\ last'.op = "api_patch"
        /\ last'.arg.id \in DOMAIN db
        /\ db'[last'.arg.id] # db[last'.arg.id])
       => db'[last'.arg.id].updated_at = clock]_vars

\* The first pipe-separated field of an add text, trimmed.
FirstField(text) == Strip(Split(text, "|")[1])
\* The k-th pipe-separated field, trimmed; None when missing or empty.
FieldOrNull(text, k) ==
    LET raw == Split(text, "|") IN
    IF Len(raw) >= k /\ Strip(raw[k]) # <<>> THEN Some(Strip(raw[k])) ELSE None

\* C9: an add command whose first field is empty after trimming is answered
\* with a private usage hint; no record is created and no id is consumed.
C9_EmptyHypothesisRejected ==
    (last.op = "add" /\ FirstField(last.arg) = <<>>)
    => /\ last.ret.response_type = "ephemeral"
       /\ last.ret.msg \in {"add_usage", "add_invalid_format"}
       /\ last.created = <<>>

\* C10: an add command with a hypothesis creates exactly one record holding
\* the trimmed first, second and third fields, a missing or empty field as
\* null.
C10_AddStoresTrimmedFields ==
    (last.op = "add" /\ FirstField(last.arg) # <<>>)
    => /\ Len(last.created) = 1
       /\ last.created[1] \in DOMAIN activities
       /\ LET a == activities[last.created[1]] IN
          /\ a.hypothesis = Some(FirstField(last.arg))
          /\ a.audience = FieldOrNull(last.arg, 2)
          /\ a.channels = FieldOrNull(last.arg, 3)

C5_HypothesisNeverEmpty ==
    /\ \A id \in DOMAIN db : TruthyStr(db[id].hypothesis)
    /\ \A id \in DOMAIN activities : TruthyStr(activities[id].hypothesis)
    /\ (/\ last.op = "api_create"
        /\ "hypothesis" \in DOMAIN last.arg
        /\ last.arg.hypothesis = Some(<<>>))
       => (last.ret.status = 422 /\ last.created = <<>>)

\* Whether a PUT (partial = FALSE) or PATCH (partial = TRUE) of that body is
\* carried out: the id exists and the hypothesis does not end up null.
UpdateApplies(id, body, partial) ==
    /\ id \in DOMAIN db
    /\ IF partial
       THEN ~("hypothesis" \in DOMAIN body /\ body.hypothesis = None)
       ELSE "hypothesis" \in DOMAIN body /\ body.hypothesis # None

\* C7: a PATCH that is carried out sets exactly the fields its body names (to
\* null when the body says null) and keeps all others; a PUT that is carried
\* out sets every field, the ones its body omits to null; both keep id and
\* created_at, neither touches another row, and an update that is not carried
\* out (404, 422, 500) changes nothing.
C7_UpdateSetsNamedFields ==
    [][(last'.op \in {"api_patch", "api_put"})
       => LET id == last'.arg.id
              body == last'.arg.body
              partial == last'.op = "api_patch"
          IN /\ DOMAIN db' = DOMAIN db
             /\ \A j \in DOMAIN db \ {id} : db'[j] = db[j]
             /\ (last'.ret.status = 200) <=> UpdateApplies(id, body, partial)
             /\ UpdateApplies(id, body, partial)
                => /\ \A f \in DataFields :
                         db'[id][f] = IF f \in DOMAIN body THEN body[f]
                                      ELSE IF partial THEN db[id][f]
                                      ELSE None
                   /\ db'[id].id = db[id].id
                   /\ db'[id].created_at = db[id].created_at
             /\ (~UpdateApplies(id, body, partial) /\ id \in DOMAIN db)
                => db'[id] = db[id]]_vars

\* A PATCH naming audience (as null) and list_size has cleared the one, set
\* the other and kept the hypothesis, with another row in the table.
C7_Witness ==
    /\ last.op = "api_patch"
    /\ last.ret.status = 200
    /\ last.arg.body = [audience |-> None, list_size |-> Some(0)]
    /\ db[last.arg.id].hypothesis = Some(<<"b">>)
    /\ db[last.arg.id].audience = None
    /\ db[last.arg.id].list_size = Some(0)
    /\ DOMAIN db \ {last.arg.id} # {}

\* C7, in-memory store: update changes, of the user's fields, exactly those
\* its keyword arguments give a value other than None, and no other record.
C7_StorageUpdateFrame ==
    [][(last'.op = "update" /\ last'.arg.id \in DOMAIN activities)
       => LET id == last'.arg.id
              kw == last'.arg.kw
          IN /\ DOMAIN activities' = DOMAIN activities
             /\ \A j \in DOMAIN activities \ {id} : activities'[j] = activities[j]
             /\ \A f \in DataFields :
                   activities'[id][f] = IF f \in DOMAIN kw /\ kw[f] # None THEN kw[f]
                                        ELSE activities[id][f]]_vars

\* C6, table: GET, PUT, PATCH and DELETE of an id the table does not hold are
\* answered 404 (a PUT whose body is invalid 422) and change nothing.
C6_TableMissingIdIsNotFound ==
    [][(/\ last'.op \in {"api_get", "api_put", "api_patch", "api_delete"}
        /\ (IF last'.op \in {"api_put", "api_patch"} THEN last'.arg.id ELSE last'.arg)
              \notin DOMAIN db)
       => /\ last'.ret.status \in {404, 422}
          /\ (last'.ret.status = 422) => (last'.op = "api_put" /\ ~ValidCreate(last'.arg.body))
          /\ UNCHANGED sql]_vars

\* Whether verify_slack_signature lets the request of a webhook call through.
Authentic(request) ==
    VerifySlackSignature(signing_secret, CurrentTime(clock), request.timestamp,
                         request.body, request.signature) = 200

\* C2: every call of the command webhook, whatever the command name and the
\* argument text, is answered 200 with a well-formed response object, private
\* unless sharing was asked for; none ends in an uncaught error.
C2_RouterIsTotal ==
    (last.op = "slack_command")
    => /\ last.ret.status = 200
       /\ "response_type" \in DOMAIN last.ret.body
       /\ last.ret.body.response_type \in {"ephemeral", "in_channel"}

\* C3: with a signing secret configured, a command or interaction request
\* whose signature is missing, invalid or stale is rejected (400 or 403) and
\* changes neither store.
C3_SignatureCheckedFirst ==
    [][(/\ last'.op \in {"slack_command", "slack_interaction"}
        /\ signing_secret # ""
        /\ ~Authentic(last'.arg.request))
       => /\ last'.ret.status \in {400, 403}
          /\ UNCHANGED <<mem, sql>>]_vars

\* C11: a /gtm-view command for an integer id that the store does not hold,
\* with or without the public keyword, is answered 200 with a private
\* response saying that this activity was not found; it is never a server
\* fault and the stores are unchanged.
C11_ViewOfMissingIdIsPrivateNotFound ==
    [][(/\ last'.op = "slack_command"
        /\ last'.arg.command = "/gtm-view"
        /\ ParseInt(ViewIdText(Strip(last'.arg.text))) # None
        /\ Get(ParseInt(ViewIdText(Strip(last'.arg.text)))) \notin DOMAIN activities)
       => /\ last'.ret.status = 200
          /\ last'.ret.body.response_type = "ephemeral"
          /\ last'.ret.body.text = "not_found"
          /\ UNCHANGED <<mem, sql>>]_vars

\* C11, handler alone: handle_gtm_view called with the text of an integer id
\* that the store does not hold answers privately "not found", naming the id.
C11_HandlerViewOfMissingId ==
    [][(/\ last'.op = "view"
        /\ ParseInt(ViewIdText(last'.arg)) # None
        /\ Get(ParseInt(ViewIdText(last'.arg))) \notin DOMAIN activities)
       => /\ last'.ret = ViewResponse("ephemeral", "not_found",
                                      Get(ParseInt(ViewIdText(last'.arg))), FALSE)
          /\ UNCHANGED <<mem, sql>>]_vars

\* C12: a list command whose argument is the keyword public followed by filter
\* text F is answered with broadcast visibility and lists by the filter F,
\* keyword stripped, whatever the store holds; a list command without the
\* keyword is answered privately.
C12_PublicListIsBroadcast ==
    (last.op = "list")
    => IF TruthyStr(last.arg) /\ StartsWith(Lower(Get(last.arg)), PublicWord \o <<" ">>)
       THEN /\ last.ret.response_type = "in_channel"
            /\ last.ret.filter =
                 (LET F == Strip(SubSeq(Get(last.arg), 8, Len(Get(last.arg))))
                  IN IF F = <<>> THEN None ELSE Some(F))
       ELSE (~TruthyStr(last.arg) \/ Lower(Get(last.arg)) # PublicWord)
            => last.ret.response_type = "ephemeral"

\* An import call that found its file, the rows of the file, the count the
\* call returned (-1 when it ended in an error) and the records it left.
IsImport(c) ==
    \/ c.op = "import_csv_data"
    \/ c.op = "api_import_csv" /\ c.arg # None
ImportRows(c) == IF c.op = "api_import_csv" THEN Get(c.arg) ELSE c.arg
ImportCount(c) ==
    IF c.op = "api_import_csv"
    THEN IF c.ret.status = 200 THEN c.ret.body.count ELSE -1
    ELSE IF c.ret = "AttributeError" THEN -1 ELSE Get(c.ret)
\* A row with all its cells, and a row whose hypothesis is blank.
RowComplete(row) == \A col \in DOMAIN row : row[col] # None
RowBlank(row) == Strip(Get(row["Hypothesis"])) = <<>>

\* C13: an import of N rows, all with their cells, K of them with an empty
\* hypothesis, adds exactly N-K records to its store and returns N-K; no
\* record it creates has an empty hypothesis.
C13_ImportSkipsEmptyHypothesis ==
    [][(IsImport(last') /\ \A k \in 1..Len(ImportRows(last')) : RowComplete(ImportRows(last')[k]))
       => LET rows == ImportRows(last')
              kept == Cardinality({k \in 1..Len(rows) : ~RowBlank(rows[k])})
              store == IF last'.op = "api_import_csv" THEN db ELSE activities
              store2 == IF last'.op = "api_import_csv" THEN db' ELSE activities'
          IN /\ ImportCount(last') = kept
             /\ Len(last'.created) = kept
             /\ Cardinality(DOMAIN store2) = Cardinality(DOMAIN store) + kept
             /\ \A i \in 1..Len(last'.created) :
                   TruthyStr(store2[last'.created[i]].hypothesis)]_vars

\* C14: an import ends with a count, never with an error, and every row that
\* has its cells and a hypothesis becomes a record, whatever the rows before
\* and after it are; a number that is blank or no number is stored as null.
C14_ImportCollectsAndContinues ==
    [][IsImport(last')
       => LET rows == ImportRows(last')
              good == SelectSeq(rows, LAMBDA r : RowComplete(r) /\ ~RowBlank(r))
              store2 == IF last'.op = "api_import_csv" THEN db' ELSE activities'
              made == SelectSeq([i \in 1..Len(last'.created) |-> store2[last'.created[i]]],
                                LAMBDA a : TruthyStr(a.hypothesis))
          IN /\ ImportCount(last') >= 0
             /\ Len(made) = Len(good)
             /\ \A i \in 1..Len(good) :
                   Len(made) >= i
                   => /\ made[i].hypothesis = Some(Strip(Get(good[i]["Hypothesis"])))
                      /\ made[i].list_size =
                           (IF ParseInt(Get(good[i]["List size"])) = None THEN None
                            ELSE ParseInt(Get(good[i]["List size"])))]_vars

\* C13, in-memory importer alone: import_csv_data skips the rows with a blank
\* hypothesis and returns the number of records it created.
C13_ImportDataSkipsEmptyHypothesis ==
    [][(last'.op = "import_csv_data"
        /\ \A k \in 1..Len(last'.arg) : RowComplete(last'.arg[k]))
       => LET kept == Cardinality({k \in 1..Len(last'.arg) : ~RowBlank(last'.arg[k])})
          IN /\ last'.ret = Some(kept)
             /\ Len(last'.created) = kept
             /\ \A i \in 1..kept :
                   TruthyStr(activities'[last'.created[i]].hypothesis)]_vars

SubstringOf(value, text) ==
    value # None /\ Contains(Lower(Get(value)), Lower(text))
RECURSIVE Ascending(_)
Ascending(K) ==
    IF K = {} THEN <<>>
    ELSE LET least == CHOOSE k \in K : \A j \in K : k <= j
         IN <<least>> \o Ascending(K \ {least})
MatchesEvery(a, q) ==
    \A f \in {"hypothesis", "audience", "channels"} :
        TruthyStr(q[f]) => SubstringOf(a[f], Get(q[f]))

\* C16: a list returns exactly the Activities that match every filter given
\* (case-insensitive substring, each on its own field), in ascending id
\* order, cut to the skip/limit window; without a filter, all records of the
\* window.
C16_ListIsFilteredAscendingWindow ==
    /\ (last.op = "api_list" /\ last.ret.status = 200)
       => last.ret.body =
            Window(Ascending({k \in DOMAIN db : MatchesEvery(db[k], last.arg)}),
                   last.arg.skip, last.arg.limit)
    /\ (last.op = "list_all" /\ ~TruthyStr(last.arg.filter_text))
       => last.ret = Window(Ascending(DOMAIN activities), 0, last.arg.limit)

\* The first action of a button event, and the id its value names.
IsButton(c) ==
    /\ c.op = "slack_interaction"
    /\ c.arg.payload.type = "block_actions"
    /\ c.arg.payload.actions # <<>>
ButtonTag(c, prefix) == StartsWith(c.arg.payload.actions[1].action_id, prefix)
ButtonId(c) == ParseInt(c.arg.payload.actions[1].value)

\* C17: a button event tagged view_, edit_, delete_ or share_ for an existing
\* id is answered 200 with the result of its operation: view the private
\* detail payload, share the detail payload with broadcast visibility, delete
\* the confirmation with the record gone, edit the acknowledgement of the
\* opened form.
C17_TaggedActionIsPerformed ==
    [][(/\ IsButton(last')
        /\ ButtonId(last') # None
        /\ Get(ButtonId(last')) \in DOMAIN db)
       => /\ ButtonTag(last', ViewActivityPrefix)
             => /\ last'.ret.status = 200
                /\ "response_type" \in DOMAIN last'.ret.body
                /\ last'.ret.body.response_type = "ephemeral"
          /\ ButtonTag(last', ShareActivityPrefix)
             => /\ last'.ret.status = 200
                /\ "response_type" \in DOMAIN last'.ret.body
                /\ last'.ret.body.response_type = "in_channel"
          /\ ButtonTag(last', DeleteActivityPrefix)
             => /\ last'.ret = Ephemeral("deleted")
                /\ Get(ButtonId(last')) \notin DOMAIN db'
          /\ ButtonTag(last', EditActivityPrefix)
             => last'.ret.status = 200]_vars

\* A form submission for an existing id that the handler carries out, and a
\* field the form leaves blank.
IsSubmission(c) ==
    /\ c.op = "slack_interaction"
    /\ c.arg.payload.type = "view_submission"
    /\ StartsWith(c.arg.payload.view.callback_id, UpdateActivityPrefix)
SubmissionId(c) ==
    ParseInt(Split(c.arg.payload.view.callback_id, "_")
                [Len(Split(c.arg.payload.view.callback_id, "_"))])
FormBlank(values, f) ==
    \/ ~TruthyStr(ModalValue(values, f))
    \/ f \in {"list_size", "meetings_booked"} /\ Strip(Get(ModalValue(values, f))) = <<>>

\* C18: a form submission keeps the stored value of every optional field the
\* form leaves blank.
C18_BlankFieldIsKept ==
    [][(/\ IsSubmission(last')
        /\ SubmissionId(last') # None
        /\ Get(SubmissionId(last')) \in DOMAIN db)
       => \A f \in {"audience", "channels", "description", "list_size", "meetings_booked"} :
             FormBlank(last'.arg.payload.view.values, f)
             => db'[Get(SubmissionId(last'))][f] = db[Get(SubmissionId(last'))][f]]_vars

\* C19: every interaction event is answered 200 with a response object, never
\* with an uncaught error.
C19_InteractionNeverFaults ==
    (last.op = "slack_interaction") => last.ret.status = 200

\* C20: every record of the in-memory store carries the id it is stored
\* under (so no two share an id), and an update leaves the id of its record
\* as it was, whatever the field map.
C20_IdIsImmutable ==
    [][/\ \A k \in DOMAIN activities' : activities'[k].id = k
       /\ \A j, k \in DOMAIN activities' :
             activities'[j].id = activities'[k].id => j = k
       /\ (last'.op = "update" /\ last'.arg.id \in DOMAIN activities)
          => activities'[last'.arg.id].id = activities[last'.arg.id].id]_vars

\* C20, table: no PUT or PATCH changes the id of a row.
C20_TableIdIsImmutable ==
    [][\A k \in DOMAIN db' : db'[k].id = k]_vars

\* C21: every record of the in-memory store has updated_at not earlier than
\* created_at, and no operation changes the created_at of a record the store
\* already holds.
C21_CreatedAtIsFixedAndNotLater ==
    [][/\ \A k \in DOMAIN activities' :
             activities'[k].updated_at >= activities'[k].created_at
       /\ \A k \in DOMAIN activities \cap DOMAIN activities' :
             activities'[k].created_at = activities[k].created_at]_vars

\* C21, table: no POST, PUT, PATCH or DELETE makes a row's created_at later
\* than its updated_at or changes the created_at of a row.
C21_TableCreatedAtIsFixed ==
    [][/\ \A k \in DOMAIN db' : db'[k].updated_at >= db'[k].created_at
       /\ \A k \in DOMAIN db \cap DOMAIN db' :
             db'[k].created_at = db[k].created_at]_vars

\* A request that completes in this step.
Completes(r) == sessions[r].pc # "done" /\ sessions'[r].pc = "done"

\* C22: every create, update and delete of concurrent requests takes effect
\* in one step, as the same operation made on its own at that moment would:
\* a create adds a row under an id no row has and loses none, an update of a
\* row that is there answers 200 and of one that is gone 404, a delete of a
\* row that is there removes it and of one that is gone answers 404, and no
\* request ends in an uncaught error.
C22_ConcurrentOperationsAreAtomic ==
    [][\A r \in Requests :
         Completes(r)
         => LET q == sessions'[r] IN
            /\ q.ret.status # 500
            /\ q.op = "create"
               => /\ q.ret.status = 201
                  /\ q.id \notin DOMAIN db
                  /\ DOMAIN db' = DOMAIN db \cup {q.id}
                  /\ \A k \in DOMAIN db : db'[k] = db[k]
            /\ q.op = "patch"
               => IF q.id \in DOMAIN db
                  THEN q.ret.status = 200 /\ DOMAIN db' = DOMAIN db
                  ELSE q.ret.status = 404 /\ db' = db
            /\ q.op = "delete"
               => IF q.id \in DOMAIN db
                  THEN q.ret.status = 204 /\ DOMAIN db' = DOMAIN db \ {q.id}
                  ELSE q.ret.status = 404 /\ db' = db]_vars

\* C22, creates: two requests that create at the same time get different
\* ids and both rows are in the table.
C22_ConcurrentCreatesGetDistinctIds ==
    \A r1, r2 \in Requests :
        (/\ r1 # r2
         /\ sessions[r1].pc = "done" /\ sessions[r1].op = "create"
         /\ sessions[r2].pc = "done" /\ sessions[r2].op = "create")
        => sessions[r1].id # sessions[r2].id

\* C23: a form submission whose callback id is update_activity_<id> is
\* answered, when the id exists, with the acknowledgement that closes the
\* form, and no row but that one changes; when it does not exist, with an
\* error keyed to a form field, and the table unchanged.
C23_SubmissionIsAppliedOrRejected ==
    [][(IsSubmission(last') /\ SubmissionId(last') # None)
       => LET id == Get(SubmissionId(last')) IN
          IF id \in DOMAIN db
          THEN /\ last'.ret = Http(200, [response_action |-> "clear"])
               /\ DOMAIN db' = DOMAIN db
               /\ \A k \in DOMAIN db \ {id} : db'[k] = db[k]
          ELSE /\ last'.ret = Http(200, [response_action |-> "errors",
                                         errors |-> "hypothesis"])
               /\ db' = db]_vars

\* C23, forms that parse: when the numeric fields of the form are numbers
\* or blank and the hypothesis is given, the submission is answered as C23
\* says.
C23_WellFormedSubmissionIsAppliedOrRejected ==
    [][(/\ IsSubmission(last')
        /\ SubmissionId(last') # None
        /\ ~ParseModalSubmission(last'.arg.payload.view.values).error
        /\ ParseModalSubmission(last'.arg.payload.view.values).data.hypothesis # None)
       => LET id == Get(SubmissionId(last')) IN
          IF id \in DOMAIN db
          THEN /\ last'.ret = Http(200, [response_action |-> "clear"])
               /\ DOMAIN db' = DOMAIN db
               /\ \A k \in DOMAIN db \ {id} : db'[k] = db[k]
          ELSE /\ last'.ret = Http(200, [response_action |-> "errors",
                                         errors |-> "hypothesis"])
               /\ db' = db]_vars

\* The argument texts that name activity i with the keyword public, after
\* the id and before it.
PublicViewTexts(i) ==
    { IntToText(i) \o <<" ">> \o PublicWord,
      IntToText(i) \o <<" ", "P", "u", "b", "l", "i", "c">>,
      PublicWord \o <<" ">> \o IntToText(i) }

\* C24: the view command shows an existing activity to the channel when its
\* argument carries the keyword public, before or after the id, and
\* privately when the argument is the id alone.
C24_PublicKeywordInAnyPosition ==
    (last.op = "view")
    => \A i \in DOMAIN activities :
          /\ last.arg \in PublicViewTexts(i)
             => last.ret = ViewResponse("in_channel", "detail", i, FALSE)
          /\ last.arg = IntToText(i)
             => last.ret = ViewResponse("ephemeral", "detail", i, TRUE)

\* C24, keyword last: with the keyword after the id the activity is shown to
\* the channel, and with the id alone privately.
C24_TrailingPublicKeyword ==
    (last.op = "view")
    => \A i \in DOMAIN activities :
          /\ last.arg \in PublicViewTexts(i) \ {PublicWord \o <<" ">> \o IntToText(i)}
             => last.ret = ViewResponse("in_channel", "detail", i, FALSE)
          /\ last.arg = IntToText(i)
             => last.ret = ViewResponse("ephemeral", "detail", i, TRUE)

\* The record a detail view shows.
IsDetail(c) == c.op = "view_detail" /\ c.ret.msg = "detail"

\* C25: the detail view renders a description longer than 500 characters
\* as its first 497 characters followed by '...', and a description of at
\* most 500 characters as it is; the rendered description is never longer
\* than 500 characters.
C25_DescriptionIsTruncated ==
    (IsDetail(last) /\ TruthyStr(activities[last.ret.id].description))
    => LET desc == Get(activities[last.ret.id].description)
           shown == last.ret.blocks["Description"]
       IN /\ Len(desc) > 500 => shown = SubSeq(desc, 1, 497) \o <<".", ".", ".">>
          /\ Len(desc) <= 500 => shown = desc
          /\ Len(shown) <= 500

\* A description of 600 characters shown as 497 characters and the marker.
C25_Witness ==
    /\ IsDetail(last)
    /\ TruthyStr(activities[last.ret.id].description)
    /\ Len(Get(activities[last.ret.id].description)) = 600
    /\ Len(last.ret.blocks["Description"]) = 500
    /\ SubSeq(last.ret.blocks["Description"], 498, 500) = <<".", ".", ".">>

\* What a labeled field of the detail view must show: the value, or the
\* placeholder when the record has none.
FieldText(a, l) ==
    CASE l = "Audience" -> IF IsSome(a.audience) THEN Get(a.audience) ELSE NA
      [] l = "Channels" -> IF IsSome(a.channels) THEN Get(a.channels) ELSE NA
      [] l = "List Size" -> IF IsSome(a.list_size) THEN IntToText(Get(a.list_size)) ELSE NA
      [] l = "Meetings Booked" ->
            IF IsSome(a.meetings_booked) THEN IntToText(Get(a.meetings_booked)) ELSE NA
      [] l = "Est. Weekly Hours" ->
            IF IsSome(a.est_weekly_hrs)
            THEN IntToText(Get(a.est_weekly_hrs)) \o <<".", "0">> ELSE NA
      [] l = "Start Date" -> IF IsSome(a.start_date) THEN Get(a.start_date) ELSE NA
      [] l = "End Date" -> IF IsSome(a.end_date) THEN Get(a.end_date) ELSE NA
      [] l = "Description" -> IF IsSome(a.description) THEN Truncated(Get(a.description)) ELSE NA

\* C27: the detail view shows every labeled field: the placeholder N/A for
\* a field the record has no value for, and the value, the number 0 included,
\* for a field that has one.
C27_EveryFieldIsShown ==
    IsDetail(last)
    => \A l \in DetailLabels \ {"Hypothesis"} :
          /\ l \in DOMAIN last.ret.blocks
          /\ last.ret.blocks[l] = FieldText(activities[last.ret.id], l)

\* C27, the fields of the first three sections: audience, channels, list
\* size, meetings booked and weekly hours are always shown, with N/A when
\* the record has no value.
C27_FixedFieldsAreShown ==
    IsDetail(last)
    => \A l \in {"Audience", "Channels", "List Size", "Meetings Booked",
                 "Est. Weekly Hours"} :
          /\ l \in DOMAIN last.ret.blocks
          /\ ~IsSome(activities[last.ret.id][
                 CASE l = "Audience" -> "audience" [] l = "Channels" -> "channels"
                   [] l = "List Size" -> "list_size"
                   [] l = "Meetings Booked" -> "meetings_booked"
                   [] l = "Est. Weekly Hours" -> "est_weekly_hrs"])
             => last.ret.blocks[l] = NA

\* The formats in the order the importers are to try them, and the date of
\* the first that matches the cell: None for a blank cell and for a text that
\* matches none.
ListedDateFormats == <<"%B %d, %Y", "%Y-%m-%d", "%m/%d/%Y", "%d/%m/%Y", "%d-%m-%Y">>
ListedDate(cell) ==
    IF ~TruthyStr(cell) \/ Strip(Get(cell)) = <<>> THEN None
    ELSE FirstParse(Strip(Get(cell)), ListedDateFormats, 1)

\* C26: both importers store, as the start date of a row, the date of the
\* first listed format the cell matches, and null for a blank cell and for a
\* cell that matches none: never the text of the cell.
C26_DateIsFirstMatchOrNull ==
    /\ (last.op = "api_import_csv" /\ last.ret.status = 200
           /\ "T1 Date or Start" \in DOMAIN Get(last.arg)[1])
       => db[last.created[1]].start_date = ListedDate(Get(last.arg)[1]["T1 Date or Start"])
    /\ (last.op = "import_csv_data" /\ Len(last.created) = 1
           /\ "T1 Date or Start" \in DOMAIN last.arg[1])
       => activities[last.created[1]].start_date =
             IF ListedDate(last.arg[1]["T1 Date or Start"]) = None THEN None
             ELSE Some(Strftime(Get(ListedDate(last.arg[1]["T1 Date or Start"]))))

\* C26, the importer of the table: utils.parse_date gives the date of the
\* first listed format the cell matches and null otherwise.
C26_TableDateIsFirstMatchOrNull ==
    (last.op = "api_import_csv" /\ last.ret.status = 200
       /\ "T1 Date or Start" \in DOMAIN Get(last.arg)[1])
    => db[last.created[1]].start_date = ListedDate(Get(last.arg)[1]["T1 Date or Start"])

\* The unedited form of row id is what the last event submitted.
IsUneditedSubmission(c, table, id) ==
    /\ c.op = "slack_interaction"
    /\ id \in DOMAIN table
    /\ c.arg.payload = UneditedSubmission(table[id])

\* C28: the update form built from a row and submitted unedited leaves
\* every field of the row as it was, a list_size or meetings_booked of 0 and
\* the fields the form does not show included, and the id read from the
\* callback id is the id of the row.
C28_UneditedFormChangesNothing ==
    [][\A id \in DOMAIN db :
         IsUneditedSubmission(last', db, id)
         => /\ SubmissionId(last') = Some(id)
            /\ id \in DOMAIN db'
            /\ \A f \in AllFields \ {"updated_at"} : db'[id][f] = db[id][f]]_vars

\* C28, rows without a zero: the unedited form of a row whose list_size and
\* meetings_booked are not 0 leaves the row as it was.
C28_UneditedFormOfNonZeroRow ==
    [][\A id \in DOMAIN db :
         (/\ IsUneditedSubmission(last', db, id)
          /\ db[id].list_size # Some(0)
          /\ db[id].meetings_booked # Some(0))
         => /\ SubmissionId(last') = Some(id)
            /\ last'.ret = Http(200, [response_action |-> "clear"])
            /\ db' = db]_vars

====
